---- MODULE Spec2Model ----
(***************************************************************************)
(* Model of github.com/farrukhny/config: the reflective field extraction,  *)
(* the name derivation, the command-line flag parser, the environment      *)
(* source, the string-to-value coercion and the Process orchestrator.      *)
(*                                                                         *)
(* Go strings are TLA+ strings; s[i] of Go is Ch(s, i+1) here.  The model  *)
(* uses ASCII only, so bytes and runes coincide.                           *)
(***************************************************************************)
EXTENDS Integers, Sequences, FiniteSets, TLC

VARIABLES typ, environ, args, mutators, parsers,
          rec, rec0, pc, pidx, flagm, envm, fields, k, err, log,
          run, rec1, call, ret

vars == <<typ, environ, args, mutators, parsers,
          rec, rec0, pc, pidx, flagm, envm, fields, k, err, log,
          run, rec1, call, ret>>

inputs == <<typ, environ, args, mutators, parsers>>

\* what belongs to the caller of Process: the number of the call it is making on
\* its record and the record it got back from the call before; and, for a
\* function of the package called on its own, the call and what it returned
caller == <<run, rec1, call, ret>>

-----------------------------------------------------------------------------
(* Characters and strings                                                  *)

LowerStr == "abcdefghijklmnopqrstuvwxyz"
UpperStr == "ABCDEFGHIJKLMNOPQRSTUVWXYZ"
DigitStr == "0123456789"

Ch(s, i) == SubSeq(s, i, i)

\* the element of a singleton set; One({e : x \in {v}}) is e with x bound to the
\* value of v, computed once
One(S) == CHOOSE x \in S : TRUE

CharsOf(s) == {Ch(s, i) : i \in 1..Len(s)}

Lower == CharsOf(LowerStr)
Upper == CharsOf(UpperStr)
Digit == CharsOf(DigitStr)

\* index (1-based) of character c in s, 0 when absent: strings.Index + 1
IndexOf(s, c) ==
    IF \E i \in 1..Len(s) : Ch(s, i) = c
    THEN CHOOSE i \in 1..Len(s) : Ch(s, i) = c /\ \A j \in 1..(i - 1) : Ch(s, j) # c
    ELSE 0

ToUpperCh(c) == IF c \in Lower THEN Ch(UpperStr, IndexOf(LowerStr, c)) ELSE c
ToLowerCh(c) == IF c \in Upper THEN Ch(LowerStr, IndexOf(UpperStr, c)) ELSE c

RECURSIVE upperLoop(_)
upperLoop(s) == IF s = "" THEN "" ELSE ToUpperCh(Head(s)) \o upperLoop(Tail(s))

\* strings.ToUpper
ToUpper(str) == One({upperLoop(s) : s \in {str}})

RECURSIVE lowerLoop(_)
lowerLoop(s) == IF s = "" THEN "" ELSE ToLowerCh(Head(s)) \o lowerLoop(Tail(s))

\* strings.ToLower
ToLower(str) == One({lowerLoop(s) : s \in {str}})

\* strings.Join
RECURSIVE Join(_, _)
Join(words, sep) ==
    IF Len(words) = 0 THEN ""
    ELSE IF Len(words) = 1 THEN words[1]
    ELSE words[1] \o sep \o Join(Tail(words), sep)

\* unicode.IsSpace on the characters of the model
IsSpace(c) == c \in {" ", "\t", "\n"}

RECURSIVE TrimLeft(_)
TrimLeft(s) == IF s # "" /\ IsSpace(Head(s)) THEN TrimLeft(Tail(s)) ELSE s

RECURSIVE TrimRight(_)
TrimRight(s) ==
    IF s # "" /\ IsSpace(Ch(s, Len(s))) THEN TrimRight(SubSeq(s, 1, Len(s) - 1)) ELSE s

\* strings.TrimSpace
TrimSpace(str) == One({TrimRight(TrimLeft(s)) : s \in {str}})

\* strings.SplitN(s, sep, 2) for a separator of one character
SplitN2(s, sep) ==
    One({IF i = 0 THEN <<s>> ELSE <<SubSeq(s, 1, i - 1), SubSeq(s, i + 1, Len(s))>>
         : i \in {IndexOf(s, sep)} })

\* strings.Split(s, sep) for a separator of one character
RECURSIVE Split(_, _)
Split(s, sep) ==
    One({IF Len(kv) = 1 THEN kv ELSE <<kv[1]>> \o Split(kv[2], sep)
         : kv \in {SplitN2(s, sep)} })

\* strings.HasPrefix
HasPrefix(s, prefix) == Len(s) >= Len(prefix) /\ SubSeq(s, 1, Len(prefix)) = prefix

\* strings.TrimPrefix
TrimPrefix(s, prefix) == IF HasPrefix(s, prefix) THEN SubSeq(s, Len(prefix) + 1, Len(s)) ELSE s

-----------------------------------------------------------------------------
(* Errors.  An error value carries the message the code builds and a kind  *)
(* that survives the wrapping done by callers.                             *)

NoErr == [kind |-> "nil", msg |-> ""]
Err(kind, msg) == [kind |-> kind, msg |-> msg]
Wrap(pre, e) == [kind |-> e.kind, msg |-> pre \o e.msg]

ErrHelp == Err("ErrHelp", "help requested")
ErrVersion == Err("ErrVersion", "version requested")
ErrInvalidTarget == Err("InvalidTarget", "targetStruct must be a non-nil pointer")
\* a Go run-time panic (index out of range): the call does not return
Panic(msg) == Err("panic", msg)

-----------------------------------------------------------------------------
(* Name deriver                                                            *)

RECURSIVE splitLoop(_, _, _, _, _)
splitLoop(s, i, lastChar, lastIndex, words) ==
    IF i > Len(s) THEN Append(words, SubSeq(s, lastIndex, Len(s)))
    ELSE LET char == Ch(s, i) IN
         IF char \in Upper /\ lastChar \notin Upper
         THEN splitLoop(s, i + 1, char, i, Append(words, SubSeq(s, lastIndex, i - 1)))
         ELSE splitLoop(s, i + 1, char, lastIndex, words)

splitCamelCase(s) == IF s = "" THEN <<>> ELSE splitLoop(s, 1, Ch(s, 1), 1, <<>>)

validateEnvVarName(name) ==
    /\ Len(name) # 0
    /\ Ch(name, 1) \notin Digit
    /\ \A i \in 1..Len(name) : Ch(name, i) \in Upper \cup Digit \cup {"_"}

validateFlagName(name) ==
    /\ Len(name) # 0
    /\ Ch(name, 1) \in Lower
    /\ Ch(name, Len(name)) # "-"
    /\ \A i \in 1..Len(name) :
          /\ Ch(name, i) \in Lower \cup Digit \cup {"-"}
          /\ ~(Ch(name, i) = "-" /\ Ch(name, i - 1) = "-")

\* result [err, name]
createOrValidateEnvVarName(envVarTag, fieldKey) ==
    IF envVarTag = "" THEN [err |-> NoErr, name |-> ToUpper(Join(fieldKey, "_"))]
    ELSE IF ~validateEnvVarName(envVarTag)
    THEN [err |-> Err("InvalidName",
                      "invalid environment variable name has been provided: " \o envVarTag),
          name |-> ""]
    ELSE [err |-> NoErr, name |-> envVarTag]

createOrValidateFlagName(flagTag, fieldKey) ==
    IF flagTag = "" THEN [err |-> NoErr, name |-> ToLower(Join(fieldKey, "-"))]
    ELSE IF ~validateFlagName(flagTag)
    THEN [err |-> Err("InvalidName", "invalid flag name has been provided: " \o flagTag),
          name |-> ""]
    ELSE [err |-> NoErr, name |-> flagTag]

-----------------------------------------------------------------------------
(* Record types.  A struct type is a sequence of field declarations         *)
(* (reflect.StructField plus its tags); the storage of a leaf field is      *)
(* named by the path of field indices leading to it.                        *)

Leaf(name, kind, env, flag, shortFlag, default, required) ==
    [name |-> name, kind |-> kind, exported |-> TRUE, anonymous |-> FALSE,
     env |-> env, flag |-> flag, shortFlag |-> shortFlag, default |-> default,
     required |-> required, fields |-> <<>>, decoder |-> ""]

Unexported(name, kind, default, required) ==
    [name |-> name, kind |-> kind, exported |-> FALSE, anonymous |-> FALSE,
     env |-> "", flag |-> "", shortFlag |-> "", default |-> default,
     required |-> required, fields |-> <<>>, decoder |-> ""]

Nested(name, anonymous, env, flds) ==
    [name |-> name, kind |-> "struct", exported |-> TRUE, anonymous |-> anonymous,
     env |-> env, flag |-> "", shortFlag |-> "", default |-> "",
     required |-> "", fields |-> flds, decoder |-> ""]

\* a declaration whose type (through its pointer) implements Decoder with the
\* method named hook
Decodable(sf, hook) == [sf EXCEPT !.decoder = hook]

\* a descriptor: type Field
Field(path, kind, name, envVar, flag, shortFlag, default, required) ==
    [path |-> path, kind |-> kind, Name |-> name, EnvVar |-> envVar, Flag |-> flag,
     ShortFlag |-> shortFlag, Default |-> default, Required |-> required]

\* the zero value of a kind: reflect.Zero
\* the type of a field is written as Go writes it: string, bool, int16,
\* []T for a slice of T, map[K]V for a map from K to V
IsSliceKind(kind) == Len(kind) > 2 /\ SubSeq(kind, 1, 2) = "[]"
ElemKind(kind) == SubSeq(kind, 3, Len(kind))
IsMapKind(kind) == Len(kind) > 5 /\ SubSeq(kind, 1, 4) = "map["
KeyKind(kind) == SubSeq(kind, 5, IndexOf(kind, "]") - 1)
ValueKind(kind) == SubSeq(kind, IndexOf(kind, "]") + 1, Len(kind))

IsPtrKind(kind) == Len(kind) > 1 /\ SubSeq(kind, 1, 1) = "*"
PointeeKind(kind) == SubSeq(kind, 2, Len(kind))

\* a pointer: nil, or pointing to a variable that holds v
NilPtr == [nil |-> TRUE]
PtrTo(v) == [nil |-> FALSE, elem |-> v]

\* a nil slice is the empty sequence, a nil map the empty function
Zero(kind) ==
    CASE kind = "string" -> ""
      [] kind = "bool" -> FALSE
      [] kind = "int16" -> 0
      [] IsSliceKind(kind) -> <<>>
      [] IsMapKind(kind) -> <<>>
      [] IsPtrKind(kind) -> NilPtr

\* reflect.Value.IsZero
IsZero(kind, v) == v = Zero(kind)

\* the storage paths of all leaf fields below base, eligible or not
RECURSIVE LeafPaths(_, _)
LeafPaths(base, decls) ==
    UNION {IF decls[i].kind = "struct"
           THEN LeafPaths(Append(base, i), decls[i].fields)
           ELSE {Append(base, i)} : i \in 1..Len(decls)}

\* the declaration stored at a path
RECURSIVE DeclAt(_, _)
DeclAt(decls, path) ==
    IF Len(path) = 1 THEN decls[path[1]]
    ELSE DeclAt(decls[path[1]].fields, Tail(path))

-----------------------------------------------------------------------------
(* Field extractor                                                         *)

\* a store into the record made by a Decode method
Write(path, v, key, in) == [path |-> path, v |-> v, key |-> key, in |-> in]

\* Decode(value) of the types of the model on the field stored at path:
\* result [err, writes]
\*   MyType  the struct of the README: m.Value = value
\*   Level   a named int16: low -> 1, high -> 3, anything else is an error
Decode(hook, path, name, value) ==
    CASE hook = "MyType" ->
            [err |-> NoErr, writes |-> <<Write(Append(path, 1), value, name, value)>>]
      [] hook = "Level" ->
            IF value = "low" THEN [err |-> NoErr, writes |-> <<Write(path, 1, name, value)>>]
            ELSE IF value = "high"
            THEN [err |-> NoErr, writes |-> <<Write(path, 3, name, value)>>]
            ELSE [err |-> Err("DecodeFailed", "unknown level " \o value), writes |-> <<>>]

\* processDecoder(value, field) for the field declared by sf and stored at
\* path: the type switch on the field's address; result [err, writes]
processDecoder(value, sf, path) ==
    IF sf.decoder # "" THEN Decode(sf.decoder, path, sf.name, value)
    ELSE [err |-> NoErr, writes |-> <<>>]

\* a variant that lets required and default stand together
tagConflict_off(requiredValue, defaultValue) == FALSE

\* the check that a field is not both required and defaulted
tagConflict(requiredValue, defaultValue) == requiredValue = "true" /\ defaultValue # ""

\* a variant in which an embedded struct contributes its own words
innerPrefix_named(prefix, fieldKey, anonymous) == fieldKey

\* the prefix handed to the recursive call for a struct field
innerPrefix(prefix, fieldKey, anonymous) == IF anonymous THEN prefix ELSE fieldKey

\* a variant that skips the fields with the env tag "-" only
skipField_dash(sf) == sf.env = "-"

\* the test that makes the loop ignore a field
skipField(sf) == ~sf.exported \/ sf.env = "-"

\* the descriptor of the field sf stored at path, or the first error of its checks:
\* result [err, fields, key]
describe(prefix, path, sf) ==
    One({
    One({
    IF envName.err # NoErr THEN [err |-> envName.err, fields |-> <<>>, key |-> fieldKey]
    ELSE IF flag.err # NoErr THEN [err |-> flag.err, fields |-> <<>>, key |-> fieldKey]
    ELSE IF Len(sf.shortFlag) > 0 /\ Len(sf.shortFlag) # 1
    THEN [err |-> Err("InvalidShortFlag", "short flag name must be a single character"),
          fields |-> <<>>, key |-> fieldKey]
    ELSE IF tagConflict(sf.required, sf.default)
    THEN [err |-> Err("TagConflict",
                      "required field " \o sf.name \o " cannot have a default value"),
          fields |-> <<>>, key |-> fieldKey]
    ELSE [err |-> NoErr,
          fields |-> <<Field(path, sf.kind, Join(fieldKey, "_"), envName.name, flag.name,
                             sf.shortFlag, sf.default, sf.required = "true")>>,
          key |-> fieldKey]
    : envName \in {createOrValidateEnvVarName(sf.env, fieldKey)},
      flag \in {createOrValidateFlagName(sf.flag, fieldKey)} })
    : fieldKey \in {prefix \o splitCamelCase(sf.name)} })

\* a variant that keeps the descriptor of a struct field before those of its fields
RECURSIVE extractLoop_keepStruct(_, _, _, _, _, _)
extractLoop_keepStruct(prefix, base, decls, i, acc, w) ==
    IF i > Len(decls) THEN [err |-> NoErr, fields |-> acc, writes |-> w]
    ELSE IF skipField(decls[i])
    THEN extractLoop_keepStruct(prefix, base, decls, i + 1, acc, w)
    ELSE
    One({
    IF d.err # NoErr THEN [err |-> d.err, fields |-> <<>>, writes |-> w]
    ELSE IF decls[i].kind = "struct"
    THEN One({
         IF dec.err # NoErr
         THEN [err |-> Wrap("error processing decoder for FieldValue: "
                            \o decls[i].name \o " ", dec.err),
               fields |-> <<>>, writes |-> w]
         ELSE
         One({
         IF inner.err # NoErr
         THEN [err |-> Wrap("error parsing embedded struct for FieldValue: "
                            \o decls[i].name \o " ", inner.err),
               fields |-> <<>>, writes |-> inner.writes]
         ELSE
              extractLoop_keepStruct(prefix, base, decls, i + 1,
                          acc \o d.fields \o inner.fields,
                          inner.writes)
         : inner \in {extractLoop_keepStruct(innerPrefix(prefix, d.key, decls[i].anonymous),
                                  Append(base, i), decls[i].fields, 1, <<>>,
                                  w \o dec.writes)} })
         : dec \in {processDecoder("", decls[i], Append(base, i))} })
    ELSE extractLoop_keepStruct(prefix, base, decls, i + 1, acc \o d.fields, w)
    : d \in {describe(prefix, Append(base, i), decls[i])} })

\* the loop over the fields of a struct from index i; acc holds the descriptors
\* appended so far and w the stores made by Decode methods so far;
\* result [err, fields, writes]
RECURSIVE extractLoop(_, _, _, _, _, _)
extractLoop(prefix, base, decls, i, acc, w) ==
    IF i > Len(decls) THEN [err |-> NoErr, fields |-> acc, writes |-> w]
    ELSE IF skipField(decls[i])
    THEN extractLoop(prefix, base, decls, i + 1, acc, w)
    ELSE
    One({
    IF d.err # NoErr THEN [err |-> d.err, fields |-> <<>>, writes |-> w]
    ELSE IF decls[i].kind = "struct"
    THEN One({
         IF dec.err # NoErr
         THEN [err |-> Wrap("error processing decoder for FieldValue: "
                            \o decls[i].name \o " ", dec.err),
               fields |-> <<>>, writes |-> w]
         ELSE
         One({
         IF inner.err # NoErr
         THEN [err |-> Wrap("error parsing embedded struct for FieldValue: "
                            \o decls[i].name \o " ", inner.err),
               fields |-> <<>>, writes |-> inner.writes]
         ELSE \* fields = append(fields[:len(fields)-1], embeddedFields...)
              extractLoop(prefix, base, decls, i + 1,
                          SubSeq(acc \o d.fields, 1, Len(acc \o d.fields) - 1)
                          \o inner.fields,
                          inner.writes)
         : inner \in {extractLoop(innerPrefix(prefix, d.key, decls[i].anonymous),
                                  Append(base, i), decls[i].fields, 1, <<>>,
                                  w \o dec.writes)} })
         : dec \in {processDecoder("", decls[i], Append(base, i))} })
    ELSE extractLoop(prefix, base, decls, i + 1, acc \o d.fields, w)
    : d \in {describe(prefix, Append(base, i), decls[i])} })

\* extractFields(nil, cfg) for a target t = [target, decls]
extractFields(t) ==
    IF t.target # "ptrStruct" THEN [err |-> ErrInvalidTarget, fields |-> <<>>, writes |-> <<>>]
    ELSE extractLoop(<<>>, <<>>, t.decls, 1, <<>>, <<>>)

-----------------------------------------------------------------------------
(* Command-line flag source                                                *)

\* a Go map[string]T: a function on the set of its keys
EmptyMap == [x \in {} |-> x]
MapPut(m, key, v) == [x \in (DOMAIN m) \cup {key} |-> IF x = key THEN v ELSE m[x]]

flagValue(hasValue, value) == [HasValue |-> hasValue, Value |-> value]

\* the outcome of one iteration of the argument loop
FlagStep(e, stop, name, hasValue, value, next) ==
    [err |-> e, stop |-> stop, name |-> name, fv |-> flagValue(hasValue, value),
     next |-> next]

\* a variant that reserves no help name
isHelp_off(name) == FALSE

\* the reserved names
isHelp(name) == name = "help" \/ name = "h"
isVersion(name) == name = "version" \/ name = "v"

\* the body of the argument loop for the argument s = args[i] (1-based i): an
\* error, a break, or the entry to store and the index of the next iteration
flagStep(as, i, s) ==
    \* argument too short or not starting with a dash: break
    IF Len(s) < 2 \/ Ch(s, 1) # "-" THEN FlagStep(NoErr, TRUE, "", FALSE, "", i)
    ELSE
    One({
    IF Len(name0) = 0 \/ Ch(name0, 1) = "-" \/ Ch(name0, 1) = "="
    THEN FlagStep(Err("BadFlagSyntax", "bad flag syntax: " \o s), TRUE, "", FALSE, "", i)
    ELSE
    One({
    One({
    IF isHelp(name) THEN FlagStep(ErrHelp, TRUE, "", FALSE, "", i)
    ELSE IF isVersion(name) THEN FlagStep(ErrVersion, TRUE, "", FALSE, "", i)
    ELSE IF eq = 0 /\ i + 1 <= Len(as)
    THEN \* args[i+1][0]: indexing an empty string panics
         IF Len(as[i + 1]) = 0
         THEN FlagStep(Panic("index out of range [0] with length 0"), TRUE, "", FALSE, "", i)
         ELSE IF Ch(as[i + 1], 1) # "-"
         THEN FlagStep(NoErr, FALSE, name, TRUE, as[i + 1], i + 2)
         ELSE FlagStep(NoErr, FALSE, name, FALSE, "", i + 1)
    ELSE FlagStep(NoErr, FALSE, name, eq # 0,
                  IF eq # 0 THEN SubSeq(name0, eq + 1, Len(name0)) ELSE "", i + 1)
    : name \in {IF eq # 0 THEN SubSeq(name0, 1, eq - 1) ELSE name0} })
    : eq \in {IndexOf(name0, "=")} })
    : name0 \in {SubSeq(s, (IF Ch(s, 2) = "-" THEN 2 ELSE 1) + 1, Len(s))} })

\* the argument loop from index i with the map built so far: result [err, m]
RECURSIVE flagLoop(_, _, _)
flagLoop(as, i, m) ==
    IF i > Len(as) THEN [err |-> NoErr, m |-> m]
    ELSE
    One({
    IF st.err # NoErr THEN [err |-> st.err, m |-> EmptyMap]
    ELSE IF st.stop THEN [err |-> NoErr, m |-> m]
    ELSE One({flagLoop(as, st.next, m1) : m1 \in {MapPut(m, st.name, st.fv)}})
    : st \in {flagStep(as, i, as[i])} })

newFlagParser(as) == flagLoop(as, 1, EmptyMap)

\* a variant that reports a flag without a value as found only for a bool
flagLookup_valued(m, key, isBool) ==
    LET ok == key \in DOMAIN m
        val == IF ok THEN m[key] ELSE flagValue(FALSE, "")
    IN IF ~ok THEN <<"", FALSE>>
       ELSE IF val.HasValue THEN <<val.Value, TRUE>>
       ELSE IF isBool THEN <<"true", TRUE>>
       ELSE <<"", FALSE>>

\* a variant that hands out the stored value for every type
flagLookup_raw(m, key, isBool) ==
    IF key \in DOMAIN m THEN <<m[key].Value, TRUE>> ELSE <<"", FALSE>>

\* (f *flag) source: result <<value, ok>>
flagLookup(m, key, isBool) ==
    LET ok == key \in DOMAIN m
        val == IF ok THEN m[key] ELSE flagValue(FALSE, "")
    IN IF ~ok \/ ~isBool THEN <<val.Value, ok>>
       ELSE IF val.HasValue THEN <<val.Value, ok>>
       ELSE <<"true", ok>>

\* a variant that asks for the long flag name first
flagSource_longFirst(m, field) ==
    LET isBoolType == field.kind = "bool"
        long == flagLookup(m, field.Flag, isBoolType)
    IN IF long[2] THEN long
       ELSE IF field.ShortFlag # "" THEN flagLookup(m, field.ShortFlag, isBoolType)
       ELSE long

\* (f *flag) Source
flagSource(m, field) ==
    LET isBoolType == field.kind = "bool"
        short == flagLookup(m, field.ShortFlag, isBoolType)
    IN IF field.ShortFlag # "" /\ short[2] THEN short
       ELSE flagLookup(m, field.Flag, isBoolType)

-----------------------------------------------------------------------------
(* Environment source                                                      *)

\* newEnvSource over os.Environ(): entries "KEY=value", split at the first "="
RECURSIVE envLoop(_, _, _)
envLoop(es, i, m) ==
    IF i > Len(es) THEN m
    ELSE LET e == es[i]
             eq == IndexOf(e, "=")
         IN IF eq = 0 THEN envLoop(es, i + 1, m)
            ELSE envLoop(es, i + 1,
                         MapPut(m, SubSeq(e, 1, eq - 1), SubSeq(e, eq + 1, Len(e))))

newEnvSource(es) == envLoop(es, 1, EmptyMap)

\* (e *env) Source
envSource(m, field) ==
    IF field.EnvVar \in DOMAIN m THEN <<m[field.EnvVar], TRUE>> ELSE <<"", FALSE>>

\* the loop of newEnvSource(prefix) over os.Environ() from index i, prefix
\* already upper-cased and followed by "_"; result [err, m]; e[:idx] with
\* idx = -1 is a run-time panic
RECURSIVE prefixLoop(_, _, _, _)
prefixLoop(es, i, prefix, m) ==
    IF i > Len(es) THEN [err |-> NoErr, m |-> m]
    ELSE IF ~HasPrefix(es[i], prefix) THEN prefixLoop(es, i + 1, prefix, m)
    ELSE One({
         IF idx = 0
         THEN [err |-> Panic("slice bounds out of range [:-1]"), m |-> m]
         ELSE prefixLoop(es, i + 1, prefix,
                         MapPut(m, ToUpper(TrimPrefix(SubSeq(es[i], 1, idx - 1), prefix)),
                                SubSeq(es[i], idx + 1, Len(es[i]))))
         : idx \in {IndexOf(es[i], "=")} })

\* newEnvSource(prefix), the environment source of Process(prefix, cfg)
newEnvSource_prefix(prefix, es) ==
    prefixLoop(es, 1, IF prefix # "" THEN ToUpper(prefix) \o "_" ELSE prefix, EmptyMap)

-----------------------------------------------------------------------------
(* Value coercer                                                           *)

\* strconv.ParseBool: result [err, v]
ParseBool(str) ==
    IF str \in {"1", "t", "T", "TRUE", "true", "True"} THEN [err |-> NoErr, v |-> TRUE]
    ELSE IF str \in {"0", "f", "F", "FALSE", "false", "False"} THEN [err |-> NoErr, v |-> FALSE]
    ELSE [err |-> Err("Coercion", "strconv.ParseBool: parsing \"" \o str \o "\": invalid syntax"),
          v |-> FALSE]

HexStr == "0123456789abcdef"

\* the value of a digit character in strconv.ParseUint, -1 for any other byte
DigitVal(c) ==
    LET l == ToLowerCh(c) IN
    IF l \in CharsOf(HexStr) THEN IndexOf(HexStr, l) - 1 ELSE -1

\* strconv.underscoreOK: underscores only between digits (or after a base prefix)
RECURSIVE underscoreLoop(_, _, _)
underscoreLoop(s, last, hex) ==
    IF s = "" THEN last # "_"
    ELSE LET c == Head(s) IN
         IF c \in Digit \/ (hex /\ ToLowerCh(c) \in {"a", "b", "c", "d", "e", "f"})
         THEN underscoreLoop(Tail(s), "0", hex)
         ELSE IF c = "_"
         THEN IF last # "0" THEN FALSE ELSE underscoreLoop(Tail(s), "_", hex)
         ELSE IF last = "_" THEN FALSE
         ELSE underscoreLoop(Tail(s), "!", hex)

underscoreOK(s0) ==
    LET s1 == IF s0 # "" /\ Head(s0) \in {"+", "-"} THEN Tail(s0) ELSE s0
        pre == Len(s1) >= 2 /\ Head(s1) = "0" /\ ToLowerCh(Ch(s1, 2)) \in {"b", "o", "x"}
    IN IF pre THEN underscoreLoop(SubSeq(s1, 3, Len(s1)), "0", ToLowerCh(Ch(s1, 2)) = "x")
       ELSE underscoreLoop(s1, "^", FALSE)

RECURSIVE Pow2(_)
Pow2(n) == IF n = 0 THEN 1 ELSE 2 * Pow2(n - 1)

\* the digit loop of strconv.ParseUint: result [err, n, us]; err is "", "syntax" or "range"
RECURSIVE uintLoop(_, _, _, _, _, _)
uintLoop(s, base, base0, maxVal, n, us) ==
    IF s = "" THEN [err |-> "", n |-> n, us |-> us]
    ELSE LET c == Head(s)
             d == DigitVal(c)
         IN IF c = "_" /\ base0 THEN uintLoop(Tail(s), base, base0, maxVal, n, TRUE)
            ELSE IF d < 0 \/ d >= base THEN [err |-> "syntax", n |-> 0, us |-> us]
            ELSE IF n * base + d > maxVal THEN [err |-> "range", n |-> maxVal, us |-> us]
            ELSE uintLoop(Tail(s), base, base0, maxVal, n * base + d, us)

\* strconv.ParseUint(s, 0, bitSize): result [err, n]
ParseUint(s0, bitSize) ==
    IF s0 = "" THEN [err |-> "syntax", n |-> 0]
    ELSE
    One({
    One({
    IF r.err # "" THEN [err |-> r.err, n |-> r.n]
    ELSE IF r.us /\ ~underscoreOK(s0) THEN [err |-> "syntax", n |-> 0]
    ELSE [err |-> "", n |-> r.n]
    : r \in {uintLoop(CASE pfx = "d" -> s0 [] pfx = "0" -> Tail(s0)
                        [] OTHER -> SubSeq(s0, 3, Len(s0)),
                      CASE pfx = "d" -> 10 [] pfx = "b" -> 2 [] pfx = "o" -> 8
                        [] pfx = "x" -> 16 [] pfx = "0" -> 8,
                      TRUE, Pow2(bitSize) - 1, 0, FALSE)} })
    : pfx \in {IF Head(s0) # "0" THEN "d"
               ELSE IF Len(s0) >= 3 /\ ToLowerCh(Ch(s0, 2)) \in {"b", "o", "x"}
               THEN ToLowerCh(Ch(s0, 2))
               ELSE "0"} })

\* strconv.ParseInt(s, 0, bitSize): result [err, v]
ParseInt(str, bitSize) ==
    IF str = ""
    THEN [err |-> Err("Coercion", "strconv.ParseInt: parsing \"\": invalid syntax"), v |-> 0]
    ELSE
    One({
    IF un.err = "syntax"
    THEN [err |-> Err("Coercion",
                      "strconv.ParseInt: parsing \"" \o str \o "\": invalid syntax"),
          v |-> 0]
    ELSE IF un.err = "range" \/ (Head(str) # "-" /\ un.n >= cutoff)
                             \/ (Head(str) = "-" /\ un.n > cutoff)
    THEN [err |-> Err("Coercion",
                      "strconv.ParseInt: parsing \"" \o str \o "\": value out of range"),
          v |-> IF Head(str) = "-" THEN -cutoff ELSE cutoff - 1]
    ELSE [err |-> NoErr, v |-> IF Head(str) = "-" THEN -un.n ELSE un.n]
    : un \in {ParseUint(IF Head(str) \in {"+", "-"} THEN Tail(str) ELSE str, bitSize)},
      cutoff \in {Pow2(bitSize - 1)} })

\* reflect.Type.Bits of the integer kinds of the model
Bits(kind) == CASE kind = "int16" -> 16

\* []byte(value): the bytes of a string
BytesOf(value) == [i \in 1..Len(value) |-> Ch(value, i)]

RECURSIVE processField(_, _)
RECURSIVE sliceLoop(_, _, _, _)
RECURSIVE mapLoop(_, _, _, _)

\* a variant of the slice loop that does not trim the pieces
RECURSIVE sliceLoop_untrimmed(_, _, _, _)
sliceLoop_untrimmed(vals, i, kind, sl) ==
    IF i > Len(vals) THEN [err |-> NoErr, v |-> sl]
    ELSE One({IF r.err # NoErr THEN [err |-> r.err, v |-> <<>>]
              ELSE sliceLoop_untrimmed(vals, i + 1, kind, Append(sl, r.v))
              : r \in {processField(vals[i], ElemKind(kind))} })

\* the loop over the pieces of a slice value from index i; sl holds the elements
\* set so far
sliceLoop(vals, i, kind, sl) ==
    IF i > Len(vals) THEN [err |-> NoErr, v |-> sl]
    ELSE One({IF r.err # NoErr THEN [err |-> r.err, v |-> <<>>]
              ELSE sliceLoop(vals, i + 1, kind, Append(sl, r.v))
              : r \in {processField(TrimSpace(vals[i]), ElemKind(kind))} })

\* a variant of the map loop that keeps the first entry of a key
RECURSIVE mapLoop_firstWins(_, _, _, _)
mapLoop_firstWins(vals, i, kind, mp) ==
    IF i > Len(vals) THEN [err |-> NoErr, v |-> mp]
    ELSE
    One({
    IF Len(kv) # 2
    THEN [err |-> Err("InvalidMapEntry", "invalid map value: " \o vals[i]), v |-> <<>>]
    ELSE One({IF mKey.err # NoErr THEN [err |-> mKey.err, v |-> <<>>]
              ELSE IF mVal.err # NoErr THEN [err |-> mVal.err, v |-> <<>>]
              ELSE mapLoop_firstWins(vals, i + 1, kind,
                                     IF mKey.v \in DOMAIN mp THEN mp
                                     ELSE MapPut(mp, mKey.v, mVal.v))
              : mKey \in {processField(TrimSpace(kv[1]), KeyKind(kind))},
                mVal \in {processField(TrimSpace(kv[2]), ValueKind(kind))} })
    : kv \in {SplitN2(vals[i], ":")} })

\* the loop over the entries of a map value from index i; mp holds the entries
\* set so far
mapLoop(vals, i, kind, mp) ==
    IF i > Len(vals) THEN [err |-> NoErr, v |-> mp]
    ELSE
    One({
    IF Len(kv) # 2
    THEN [err |-> Err("InvalidMapEntry", "invalid map value: " \o vals[i]), v |-> <<>>]
    ELSE One({IF mKey.err # NoErr THEN [err |-> mKey.err, v |-> <<>>]
              ELSE One({IF mVal.err # NoErr THEN [err |-> mVal.err, v |-> <<>>]
                        ELSE mapLoop(vals, i + 1, kind, MapPut(mp, mKey.v, mVal.v))
                        : mVal \in {processField(TrimSpace(kv[2]), ValueKind(kind))} })
              : mKey \in {processField(TrimSpace(kv[1]), KeyKind(kind))} })
    : kv \in {SplitN2(vals[i], ":")} })

\* processField(value, field) on a destination of the given kind: result [err, v],
\* v the value assigned to the destination when err is nil
processField(value, kind) ==
    CASE kind = "string" -> [err |-> NoErr, v |-> value]
      [] kind = "bool" ->
            One({IF b.err # NoErr
                 THEN [err |-> Wrap("error parsing bool: ", b.err), v |-> FALSE]
                 ELSE [err |-> NoErr, v |-> b.v]
                 : b \in {ParseBool(value)} })
      [] kind = "int16" ->
            One({IF n.err # NoErr
                 THEN [err |-> Wrap("error parsing int: ", n.err), v |-> 0]
                 ELSE [err |-> NoErr, v |-> n.v]
                 : n \in {ParseInt(value, Bits(kind))} })
      [] kind = "[]byte" -> [err |-> NoErr, v |-> BytesOf(value)]
      [] IsSliceKind(kind) /\ kind # "[]byte" -> sliceLoop(Split(value, ","), 1, kind, <<>>)
      [] IsMapKind(kind) -> mapLoop(Split(value, ","), 1, kind, <<>>)
      [] OTHER -> [err |-> Err("UnsupportedType", "unsupported type " \o kind), v |-> 0]

\* a variant that stores what the switch built also when it returns an error
setField_always(value, kind, dest) ==
    One({[err |-> r.err, v |-> r.v] : r \in {processField(value, kind)} })

\* the switch of processField on a destination of the given kind that holds
\* dest: result [err, v], v the value the destination holds afterwards.  Every
\* case stores into the destination only after its parsing succeeded.
setField(value, kind, dest) ==
    One({[err |-> r.err, v |-> IF r.err # NoErr THEN dest ELSE r.v]
         : r \in {processField(value, kind)} })

\* processField(value, field) on a destination that holds dest: a nil pointer
\* is allocated first, the switch then works on what the pointer points to;
\* result [err, v], v the value the destination holds afterwards
processFieldAt(value, kind, dest) ==
    IF IsPtrKind(kind)
    THEN One({[err |-> r.err, v |-> PtrTo(r.v)]
              : r \in {setField(value, PointeeKind(kind),
                                IF dest.nil THEN Zero(PointeeKind(kind)) ELSE dest.elem)} })
    ELSE setField(value, kind, dest)

\* strconv.FormatUint(n, 10)
RECURSIVE FormatUint(_)
FormatUint(n) ==
    IF n < 10 THEN Ch(DigitStr, n + 1)
    ELSE FormatUint(n \div 10) \o Ch(DigitStr, (n % 10) + 1)

\* a variant that drops the sign
FormatInt_unsigned(n) == IF n < 0 THEN FormatUint(-n) ELSE FormatUint(n)

\* strconv.FormatInt(n, 10)
FormatInt(n) == IF n < 0 THEN "-" \o FormatUint(-n) ELSE FormatUint(n)

\* strconv.FormatBool
FormatBool(b) == IF b THEN "true" ELSE "false"

\* valueToString(v) for a value v of the given kind; keys is what v.MapKeys()
\* returns when v is a map: its keys in an order the run time chooses
RECURSIVE valueToString(_, _, _)
valueToString(v, kind, keys) ==
    CASE kind = "string" -> v
      [] kind = "bool" -> FormatBool(v)
      [] kind = "int16" -> FormatInt(v)
      [] kind = "[]byte" -> Join(v, "")
      [] IsSliceKind(kind) /\ kind # "[]byte" ->
            Join([i \in 1..Len(v) |-> valueToString(v[i], ElemKind(kind), <<>>)], ",")
      [] IsMapKind(kind) ->
            Join([i \in 1..Len(keys) |->
                    valueToString(keys[i], KeyKind(kind), <<>>) \o ":"
                    \o valueToString(v[keys[i]], ValueKind(kind), <<>>)], ",")
      [] OTHER -> ""

-----------------------------------------------------------------------------
(* Caller-supplied collaborators: mutators (MutatorFunc) and parsers       *)
(* (Parser), named by an identifier.                                       *)

\* an entry of the call log
Event(ev, src, idx, key, in, out) ==
    [ev |-> ev, src |-> src, idx |-> idx, key |-> key, in |-> in, out |-> out]

\* m(key, value) for the mutator named id: result [err, v]
\*   mutateValue  the mutator of config_test.go
\*   upper        upper-cases every value
\*   fail         fails for the key Port
ApplyMutator(id, key, value) ==
    CASE id = "mutateValue" ->
            [err |-> NoErr,
             v |-> IF key = "Host" THEN "mutated-host"
                   ELSE IF key = "HTTP_Host" THEN "mutated-http-host"
                   ELSE value]
      [] id = "upper" -> [err |-> NoErr, v |-> ToUpper(value)]
      [] id = "fail" ->
            IF key = "Port" THEN [err |-> Err("MutatorFailed", "no secret"), v |-> ""]
            ELSE [err |-> NoErr, v |-> value]

\* the value a parser stores into a leaf of the given kind
ParserValue(kind) ==
    CASE kind = "string" -> "file"
      [] kind = "bool" -> TRUE
      [] kind = "int16" -> 7

\* p.Parse(cfg) for the parser named id: result [err, rec]
\*   fill   unmarshals a document that sets every exported leaf
\*   first  unmarshals a document that sets the first field only
\*   fail   returns an error
ApplyParser(id, t, r) ==
    CASE id = "fill" ->
            [err |-> NoErr,
             rec |-> [p \in DOMAIN r |->
                        IF DeclAt(t.decls, p).exported
                        THEN ParserValue(DeclAt(t.decls, p).kind) ELSE r[p]]]
      [] id = "first" ->
            [err |-> NoErr,
             rec |-> [p \in DOMAIN r |->
                        IF p = <<1>> /\ DeclAt(t.decls, p).exported
                        THEN ParserValue(DeclAt(t.decls, p).kind) ELSE r[p]]]
      [] id = "fail" -> [err |-> Err("ParserFailed", "unmarshal yaml: bad document"), rec |-> r]

-----------------------------------------------------------------------------
(* Process orchestrator                                                    *)

\* a variant that calls no mutator
mutateLoop_skip(ms, i, f, val, src, lg) == [err |-> NoErr, val |-> val, log |-> lg]

\* the mutator loop of processWithSource from index i: result [err, val, log]
RECURSIVE mutateLoop(_, _, _, _, _, _)
mutateLoop(ms, i, f, val, src, lg) ==
    IF i > Len(ms) THEN [err |-> NoErr, val |-> val, log |-> lg]
    ELSE IF ms[i] = "nil" THEN mutateLoop(ms, i + 1, f, val, src, lg)
    ELSE
    One({
    IF r.err # NoErr
    THEN [err |-> Wrap("error executing mutator: " \o f.Name \o ", error: ", r.err),
          val |-> val,
          log |-> Append(lg, Event("mutator", src, i, f.Name, val, "error"))]
    ELSE One({mutateLoop(ms, i + 1, f, r.v, src, lg1)
              : lg1 \in {Append(lg, Event("mutator", src, i, f.Name, val, r.v))} })
    : r \in {ApplyMutator(ms[i], f.Name, val)} })

\* a variant that lists the flag source first
Sources_flagFirst == <<"flag", "env">>

\* the order of the sources: sources := []source{newEnvSource(), flag}
Sources == <<"env", "flag">>

\* src.Source(f)
Resolve(src, f, em, fm) == IF src = "env" THEN envSource(em, f) ELSE flagSource(fm, f)

\* a variant that goes on to the next source when a value does not coerce
RECURSIVE processWithSource_skipFailed(_, _, _, _, _, _, _)
processWithSource_skipFailed(f, srcs, i, em, fm, ms, st) ==
    IF i > Len(srcs) THEN st
    ELSE
    One({
    IF ~res[2] THEN processWithSource_skipFailed(f, srcs, i + 1, em, fm, ms, st)
    ELSE
    One({
    IF mu.err # NoErr THEN [err |-> mu.err, v |-> st.v, log |-> mu.log]
    ELSE
    One({
    One({processWithSource_skipFailed(f, srcs, i + 1, em, fm, ms, st1)
         : st1 \in {[err |-> NoErr, v |-> IF r.err # NoErr THEN st.v ELSE r.v,
                     log |-> Append(mu.log,
                                    Event("coerce", srcs[i], 0, f.Name, mu.val,
                                          IF r.err # NoErr THEN "error" ELSE "ok"))]} })
    : r \in {processField(mu.val, f.kind)} })
    : mu \in {mutateLoop(ms, 1, f, res[1], srcs[i],
                         Append(st.log, Event("resolve", srcs[i], 0, f.Name, res[1], "")))} })
    : res \in {Resolve(srcs[i], f, em, fm)} })

\* the source loop of processWithSource from index i; st = [err, v, log] holds the
\* value of the field and the calls made so far
RECURSIVE processWithSource(_, _, _, _, _, _, _)
processWithSource(f, srcs, i, em, fm, ms, st) ==
    IF i > Len(srcs) THEN st
    ELSE
    One({
    IF ~res[2] THEN processWithSource(f, srcs, i + 1, em, fm, ms, st)
    ELSE
    One({
    IF mu.err # NoErr THEN [err |-> mu.err, v |-> st.v, log |-> mu.log]
    ELSE
    One({
    IF r.err # NoErr
    THEN [err |-> Wrap("error processing field: " \o f.Name \o ", error: ", r.err),
          v |-> st.v,
          log |-> Append(mu.log, Event("coerce", srcs[i], 0, f.Name, mu.val, "error"))]
    ELSE One({processWithSource(f, srcs, i + 1, em, fm, ms, st1)
              : st1 \in {[err |-> NoErr, v |-> r.v,
                          log |-> Append(mu.log,
                                         Event("coerce", srcs[i], 0, f.Name, mu.val, "ok"))]} })
    : r \in {processField(mu.val, f.kind)} })
    : mu \in {mutateLoop(ms, 1, f, res[1], srcs[i],
                         Append(st.log, Event("resolve", srcs[i], 0, f.Name, res[1], "")))} })
    : res \in {Resolve(srcs[i], f, em, fm)} })

\* a variant that coerces the default whatever the field holds
defaultStep_always(f, v0) ==
    IF f.Default # ""
    THEN [err |-> processField(f.Default, f.kind).err,
          v |-> processField(f.Default, f.kind).v,
          log |-> <<Event("coerce", "default", 0, f.Name, f.Default, "ok")>>]
    ELSE [err |-> NoErr, v |-> v0, log |-> <<>>]

\* a variant that passes the default through the mutators before it coerces it
defaultStep_mutated(f, v0) ==
    IF f.Default # "" /\ IsZero(f.kind, v0)
    THEN One({
         IF mu.err # NoErr THEN [err |-> mu.err, v |-> v0, log |-> mu.log]
         ELSE One({
              IF r.err # NoErr
              THEN [err |-> Wrap("error processing default value: " \o f.Name \o ", error: ",
                                 r.err),
                    v |-> v0,
                    log |-> Append(mu.log,
                                   Event("coerce", "default", 0, f.Name, mu.val, "error"))]
              ELSE [err |-> NoErr, v |-> r.v,
                    log |-> Append(mu.log, Event("coerce", "default", 0, f.Name, mu.val, "ok"))]
              : r \in {processField(mu.val, f.kind)} })
         : mu \in {mutateLoop(mutators, 1, f, f.Default, "default", <<>>)} })
    ELSE [err |-> NoErr, v |-> v0, log |-> <<>>]

\* the default step of the loop body of parseWithDefaultSource on a field holding v0
defaultStep(f, v0) ==
    IF f.Default # "" /\ IsZero(f.kind, v0)
    THEN One({
         IF r.err # NoErr
         THEN [err |-> Wrap("error processing default value: " \o f.Name \o ", error: ",
                            r.err),
               v |-> v0,
               log |-> <<Event("coerce", "default", 0, f.Name, f.Default, "error")>>]
         ELSE [err |-> NoErr, v |-> r.v,
               log |-> <<Event("coerce", "default", 0, f.Name, f.Default, "ok")>>]
         : r \in {processField(f.Default, f.kind)} })
    ELSE [err |-> NoErr, v |-> v0, log |-> <<>>]

\* a variant without the required check
requiredStep_never(f, st) == st

\* the required check that ends the loop body
requiredStep(f, st) ==
    IF st.err = NoErr /\ f.Required /\ IsZero(f.kind, st.v)
    THEN [st EXCEPT !.err = Err("RequiredFieldMissing", "required field not set: " \o f.Name)]
    ELSE st

\* one iteration of the loop over the fields in parseWithDefaultSource
fieldStep(f, v0, em, fm, ms) ==
    One({
    IF d.err # NoErr THEN d
    ELSE One({requiredStep(f, st) : st \in {processWithSource(f, Sources, 1, em, fm, ms, d)}})
    : d \in {defaultStep(f, v0)} })

-----------------------------------------------------------------------------
(* The records, environments and argument lists of the model               *)

MaxArgs == 2

Target(decls) == [target |-> "ptrStruct", decls |-> decls]

\* a record in the shape of conf in config_test.go: tagged and derived names,
\* a named nested struct and an embedded one
TConf == Target(<<
    Leaf("Host", "string", "HOST", "host", "", "localhost", ""),
    Leaf("Port", "int16", "", "", "p", "8080", ""),
    Nested("HTTP", FALSE, "HTTP", <<Leaf("Host", "string", "", "", "", "localhost", ""),
                                    Leaf("Addr", "string", "ADDR", "addr", "", "", "")>>),
    Nested("Embedded", TRUE, "", <<Leaf("ApiKey", "string", "", "", "", "", "")>> ) >>)

\* required fields of every kind, without defaults
TReq == Target(<<
    Leaf("Host", "string", "", "", "", "", "true"),
    Leaf("Port", "int16", "", "", "p", "", "true"),
    Leaf("Verbose", "bool", "", "", "", "", "true") >>)

\* a boolean and an integer without default, not required
TOpt == Target(<<
    Leaf("Verbose", "bool", "", "", "V", "", ""),
    Leaf("Port", "int16", "", "", "", "", "") >>)

\* required and default on the same field (README), after an ordinary field
TConflict(kind, default) == Target(<<
    Leaf("Host", "string", "", "", "", "", ""),
    Leaf("FooBar", kind, "", "", "", default, "true") >>)

\* the conflict below a nested struct
TNestedConflict == Target(<<
    Nested("HTTP", FALSE, "", <<Leaf("FooBar", "string", "", "", "", "foo", "true")>>),
    Leaf("Host", "string", "", "", "", "", "") >>)

\* fields extraction skips: unexported, env:"-", below a skipped struct
TSkip == Target(<<
    Unexported("secret", "string", "s3", "true"),
    Leaf("Skipped", "string", "-", "", "", "x", "true"),
    Nested("Inner", FALSE, "-", <<Leaf("Host", "string", "", "", "", "in", "true")>>),
    Leaf("Host", "string", "", "", "", "", "") >>)

\* the record of the README's decoder example, and a named integer type that
\* implements Decode
TDecoder == Target(<<
    Decodable(Nested("FooBar", FALSE, "FOO_BAR",
                     <<Leaf("Value", "string", "", "", "", "", "")>>), "MyType"),
    Decodable(Leaf("Level", "int16", "LEVEL", "", "", "", ""), "Level") >>)

\* fields that declare the reserved flag names
TReserved == Target(<<
    Leaf("Help", "bool", "", "help", "h", "", ""),
    Leaf("Version", "string", "", "version", "v", "", "") >>)

\* a default that does not coerce to the type of its field
TBadDefault == Target(<<
    Leaf("Port", "int16", "", "", "", "abc", ""),
    Leaf("Host", "string", "", "", "", "localhost", "") >>)

\* unexported fields, one of them a struct, beside an exported one
THidden == Target(<<
    Unexported("secret", "string", "", ""),
    [Nested("inner", FALSE, "", <<Leaf("Host", "string", "", "", "", "in", "")>>)
        EXCEPT !.exported = FALSE],
    Leaf("Host", "string", "", "", "", "", "") >>)

\* a field name with an underscore, which Go allows
TUnderscore == Target(<<
    Leaf("DB_Host", "string", "", "", "", "", ""),
    Leaf("Port", "int16", "", "", "", "", "") >>)

\* an invalid explicit tag before a conflicting field
TBadTag(env, flag, short) == Target(<<
    Leaf("Host", "string", env, flag, short, "", ""),
    Leaf("FooBar", "string", "", "", "", "foo", "true") >>)

\* targets that are no pointer to a struct
TInvalid(target) == [target |-> target, decls |-> <<>>]

\* what the caller supplies besides the record: mutators and parsers
Collab(ms, ps) == [m |-> ms, p |-> ps]

Plain == {Collab(<<>>, <<>>)}

\* a scenario: a record type with the argument pool, the environment snapshots
\* and the collaborators that address its fields
Scenario(t, a, e, c) == [t |-> t, a |-> a, e |-> e, c |-> c]

Scenarios == {
    Scenario(TConf,
             {"--host=cli", "--host", "cli", "-p=81", "--http-host=web", ""},
             {<<>>, <<"HOST=example.com">>, <<"PORT=8081", "NOEQ">>,
              <<"HOST=example.com", "PORT=8081">>, <<"HTTP_HOST=", "API_KEY=k">>,
              <<"HTTP_HOST=web", "ADDR=a", "HTTP_ADDR=b">>},
             {Collab(<<>>, <<>>), Collab(<<"mutateValue">>, <<>>),
              Collab(<<"upper", "mutateValue">>, <<>>),
              Collab(<<"mutateValue", "nil", "upper">>, <<>>),
              Collab(<<"fail">>, <<>>), Collab(<<>>, <<"fill">>),
              Collab(<<>>, <<"first", "fill">>), Collab(<<>>, <<"first", "fail", "fill">>),
              Collab(<<"upper">>, <<"first">>)}),
    Scenario(TReq,
             {"--host=", "--host", "cli", "-p=0", "--port=5", "--verbose",
              "--verbose=false", "-v"},
             {<<>>, <<"HOST=">>, <<"HOST=example.com", "PORT=0">>, <<"PORT=9x">>,
              <<"HOST=example.com", "PORT=7", "VERBOSE=1">>,
              <<"HOST=example.com", "PORT=7", "VERBOSE=false">>},
             {Collab(<<>>, <<>>), Collab(<<>>, <<"fill">>), Collab(<<"upper">>, <<>>),
              Collab(<<"fail">>, <<"first">>)}),
    Scenario(TOpt,
             {"--verbose", "--verbose=false", "-V", "-V=0", "false", "--port",
              "--port=0x10", "-7", "x", "-", "---x"},
             {<<>>, <<"VERBOSE=true">>, <<"VERBOSE=no">>, <<"PORT=-1">>,
              <<"PORT=40000", "PORT=4_0">>},
             Plain),
    Scenario(TConflict("string", "foo"),
             {"--help", "-h", "--version", "-v", "", "x", "--=x", "--foo-bar=b"},
             {<<>>, <<"FOO_BAR=e">>}, {Collab(<<>>, <<>>), Collab(<<>>, <<"fill">>)}),
    Scenario(TConflict("bool", "true"), {"--foo-bar", "-h"}, {<<>>, <<"FOO_BAR=1">>}, Plain),
    Scenario(TConflict("int16", "3"), {"--foo-bar=4", "--=x"}, {<<>>, <<"FOO_BAR=5">>}, Plain),
    Scenario(TNestedConflict, {"--http-foo-bar=b", "--help"}, {<<>>, <<"HTTP_FOO_BAR=e">>},
             Plain),
    Scenario(TSkip, {"--host=cli", "--skipped=s", "--secret=s", "--inner-host=i", "-v"},
             {<<>>, <<"HOST=h", "SKIPPED=s">>, <<"SECRET=s", "secret=s", "INNER_HOST=i">>},
             {Collab(<<>>, <<>>), Collab(<<"upper">>, <<"fill">>)}),
    Scenario(TDecoder, {"--level=high", "--foo-bar=cli"},
             {<<>>, <<"FOO_BAR=foo">>, <<"FOO_BAR=foo", "FOO_BAR_VALUE=v">>,
              <<"LEVEL=high">>, <<"LEVEL=3", "FOO_BAR=foo">>},
             Plain),
    Scenario(TBadDefault, {"--port=0", "--host=cli"}, {<<>>, <<"PORT=0">>},
             {Collab(<<>>, <<>>), Collab(<<>>, <<"fill">>)}),
    Scenario(THidden, {"--secret=s", "--inner-host=i", "--host=h"},
             {<<>>, <<"SECRET=e", "INNER_HOST=i">>}, Plain),
    Scenario(TUnderscore, {"--db_-host=cli", "--port=1"}, {<<>>, <<"DB__HOST=e">>}, Plain),
    Scenario(TReserved,
             {"--help", "-h", "--version", "-v", "", "x", "--=x", "--help=false", "--host",
              "--version=2"},
             {<<>>, <<"HELP=true", "VERSION=1">>}, Plain),
    Scenario(TBadTag("host", "", ""), {"--host=cli", "-h"}, {<<>>, <<"host=l">>}, Plain),
    Scenario(TBadTag("", "Host", ""), {"--host=cli", "-h"}, {<<>>, <<"HOST=l">>}, Plain),
    Scenario(TBadTag("", "", "ho"), {"--host=cli", "-h"}, {<<>>, <<"HOST=l">>}, Plain),
    Scenario(TInvalid("nilPtr"), {"--host=cli", "-h"}, {<<>>, <<"HOST=l">>},
             {Collab(<<>>, <<>>), Collab(<<>>, <<"fail">>)}),
    Scenario(TInvalid("nonPtr"), {"--host=cli", "--=x"}, {<<>>, <<"HOST=l">>}, Plain) }

\* the sequences over S of length at most n
SeqUpTo(S, n) == UNION {[1..m -> S] : m \in 0..n}

ZeroRecord(t) == [p \in LeafPaths(<<>>, t.decls) |-> Zero(DeclAt(t.decls, p).kind)]

-----------------------------------------------------------------------------
(* The state machine of one call of Process / ProcessWithParser            *)

\* no function of the package is called on its own
NoCall == [fn |-> "none"]

\* the entry of the first call on a zero record, for the scenarios S
Entry(S) ==
    /\ \E sc \in S :
          /\ typ = sc.t
          /\ args \in SeqUpTo(sc.a, MaxArgs)
          /\ environ \in sc.e
          /\ \E c \in sc.c : mutators = c.m /\ parsers = c.p
    /\ rec = ZeroRecord(typ)
    /\ run = 1
    /\ rec1 = rec
    /\ call = NoCall
    /\ ret = NoCall
    /\ rec0 = rec
    /\ pc = IF parsers = <<>> THEN "flags" ELSE "parsers"
    /\ pidx = 1
    /\ flagm = EmptyMap
    /\ envm = EmptyMap
    /\ fields = <<>>
    /\ k = 1
    /\ err = NoErr
    /\ log = <<>>

Init == Entry(Scenarios)

\* a variant whose loop goes on after a parser failed
RunParser_continue ==
    /\ pc = "parsers"
    /\ \E r \in {ApplyParser(parsers[pidx], typ, rec)} :
       /\ rec' = r.rec
       /\ err' = r.err
       /\ log' = Append(log, Event("parser", parsers[pidx], pidx, "", "",
                                   IF r.err = NoErr THEN "ok" ELSE "error"))
       /\ pc' = IF pidx = Len(parsers) THEN "flags" ELSE "parsers"
    /\ pidx' = pidx + 1
    /\ UNCHANGED <<inputs, caller, rec0, flagm, envm, fields, k>>

\* processWithParser: one iteration of the loop over the parsers
RunParser ==
    /\ pc = "parsers"
    /\ \E r \in {ApplyParser(parsers[pidx], typ, rec)} :
       /\ rec' = r.rec
       /\ err' = r.err
       /\ log' = Append(log, Event("parser", parsers[pidx], pidx, "", "",
                                   IF r.err = NoErr THEN "ok" ELSE "error"))
       /\ pc' = IF r.err # NoErr THEN "done"
                ELSE IF pidx = Len(parsers) THEN "flags" ELSE "parsers"
    /\ pidx' = pidx + 1
    /\ UNCHANGED <<inputs, caller, rec0, flagm, envm, fields, k>>

\* a variant that extracts the descriptors before it parses the arguments
BuildSources_extractFirst ==
    /\ pc = "flags"
    /\ \E ex \in {extractFields(typ)} : \E r \in {newFlagParser(args)} :
       /\ err' = IF ex.err # NoErr THEN ex.err ELSE r.err
       /\ flagm' = r.m
       /\ envm' = IF ex.err = NoErr /\ r.err = NoErr THEN newEnvSource(environ) ELSE envm
       /\ pc' = IF ex.err = NoErr /\ r.err = NoErr THEN "extract" ELSE "done"
    /\ rec0' = rec
    /\ UNCHANGED <<inputs, caller, rec, pidx, fields, k, log>>

\* parseWithDefaultSource: newFlagParser(args), then the source list
BuildSources ==
    /\ pc = "flags"
    /\ \E r \in {newFlagParser(args)} :
       /\ err' = r.err
       /\ flagm' = r.m
       /\ envm' = IF r.err = NoErr THEN newEnvSource(environ) ELSE envm
       /\ pc' = IF r.err = NoErr THEN "extract" ELSE "done"
    /\ rec0' = rec
    /\ UNCHANGED <<inputs, caller, rec, pidx, fields, k, log>>

\* the record r after the stores ws, in order
RECURSIVE ApplyWrites(_, _)
ApplyWrites(r, ws) ==
    IF ws = <<>> THEN r
    ELSE ApplyWrites([r EXCEPT ![Head(ws).path] = Head(ws).v], Tail(ws))

\* a variant that stores the default of every field before it validates the tags
Extract_storeDefaults ==
    /\ pc = "extract"
    /\ \E r \in {extractFields(typ)} :
       /\ err' = r.err
       /\ fields' = r.fields
       /\ rec' = [p \in DOMAIN rec |->
                     IF /\ DeclAt(typ.decls, p).default # ""
                        /\ processField(DeclAt(typ.decls, p).default,
                                        DeclAt(typ.decls, p).kind).err = NoErr
                     THEN processField(DeclAt(typ.decls, p).default,
                                       DeclAt(typ.decls, p).kind).v
                     ELSE ApplyWrites(rec, r.writes)[p]]
       /\ log' = log \o [j \in 1..Len(r.writes) |->
                            Event("decode", "extract", 0, r.writes[j].key, r.writes[j].in, "ok")]
       /\ pc' = IF r.err # NoErr \/ Len(r.fields) = 0 THEN "done" ELSE "fields"
    /\ UNCHANGED <<inputs, caller, rec0, pidx, flagm, envm, k>>

\* parseWithDefaultSource: extractFields(nil, cfg); the Decode methods it calls
\* store into the record
Extract ==
    /\ pc = "extract"
    /\ \E r \in {extractFields(typ)} :
       /\ err' = r.err
       /\ fields' = r.fields
       /\ rec' = ApplyWrites(rec, r.writes)
       /\ log' = log \o [j \in 1..Len(r.writes) |->
                            Event("decode", "extract", 0, r.writes[j].key, r.writes[j].in, "ok")]
       /\ pc' = IF r.err # NoErr \/ Len(r.fields) = 0 THEN "done" ELSE "fields"
    /\ UNCHANGED <<inputs, caller, rec0, pidx, flagm, envm, k>>

\* a variant whose loop goes on after an error and returns the first one
ProcessDescriptor_goOn ==
    /\ pc = "fields"
    /\ \E st \in {fieldStep(fields[k], rec[fields[k].path], envm, flagm, mutators)} :
          /\ rec' = [rec EXCEPT ![fields[k].path] = st.v]
          /\ err' = IF err # NoErr THEN err ELSE st.err
          /\ log' = log \o st.log
          /\ pc' = IF k = Len(fields) THEN "done" ELSE "fields"
    /\ k' = k + 1
    /\ UNCHANGED <<inputs, caller, rec0, pidx, flagm, envm, fields>>

\* a variant whose coercion of a string appends to what the field holds
ProcessDescriptor_append ==
    /\ pc = "fields"
    /\ \E st \in {fieldStep(fields[k], rec[fields[k].path], envm, flagm, mutators)} :
          /\ rec' = [rec EXCEPT ![fields[k].path] =
                        IF fields[k].kind = "string" /\ st.log # <<>> THEN @ \o st.v
                        ELSE st.v]
          /\ err' = st.err
          /\ log' = log \o st.log
          /\ pc' = IF st.err # NoErr \/ k = Len(fields) THEN "done" ELSE "fields"
    /\ k' = k + 1
    /\ UNCHANGED <<inputs, caller, rec0, pidx, flagm, envm, fields>>

\* parseWithDefaultSource: the loop body for the descriptor fields[k]
ProcessDescriptor ==
    /\ pc = "fields"
    /\ \E st \in {fieldStep(fields[k], rec[fields[k].path], envm, flagm, mutators)} :
          /\ rec' = [rec EXCEPT ![fields[k].path] = st.v]
          /\ err' = st.err
          /\ log' = log \o st.log
          /\ pc' = IF st.err # NoErr \/ k = Len(fields) THEN "done" ELSE "fields"
    /\ k' = k + 1
    /\ UNCHANGED <<inputs, caller, rec0, pidx, flagm, envm, fields>>

Next == RunParser \/ BuildSources \/ Extract \/ ProcessDescriptor

Spec == Init /\ [][Next]_vars

-----------------------------------------------------------------------------
(* Process called a second time on the record a successful call returned   *)

\* the records the second call is made on
Repeated == {sc \in Scenarios : sc.t \in {TConf, TReq, TDecoder, TBadDefault, TSkip}}

InitTwice == Entry(Repeated)

\* the caller calls Process(cfg, mutators...) again: same record, os.Args,
\* os.Environ and mutators, fresh locals
Rerun ==
    /\ pc = "done" /\ err = NoErr /\ run = 1
    /\ run' = 2
    /\ rec1' = rec
    /\ pc' = "flags"
    /\ flagm' = EmptyMap
    /\ envm' = EmptyMap
    /\ fields' = <<>>
    /\ k' = 1
    /\ log' = <<>>
    /\ UNCHANGED <<inputs, rec, rec0, pidx, err, call, ret>>

NextTwice == Next \/ Rerun

SpecTwice == InitTwice /\ [][NextTwice]_vars

-----------------------------------------------------------------------------
(* Functions of the package called on their own                            *)

MaxPieces == 3

\* the non-empty sequences over S of length at most n
Seq1UpTo(S, n) == UNION {[1..m -> S] : m \in 1..n}

\* a piece of a slice value: the text c between the white space l and r
Piece(l, c, r) == [l |-> l, c |-> c, r |-> r]

Pieces == {Piece("", "a", ""), Piece(" ", "b", " "), Piece("", "c", "\t"),
           Piece(" ", "", ""), Piece("\n", "7", " "), Piece("", "x y", ""),
           Piece("", "true", ""), Piece("", "0x10", " ")}

PieceText(p) == p.l \o p.c \o p.r

\* the raw value made of the pieces ps
RawOf(ps) == Join([i \in 1..Len(ps) |-> PieceText(ps[i])], ",")

SliceKinds == {"[]string", "[]int16", "[]bool"}

\* a slice or map that a destination of the given kind holds from earlier
HeldValue(kind) ==
    CASE kind = "[]string" -> <<"p", "q">>
      [] kind = "[]int16" -> <<1, 2>>
      [] kind = "[]bool" -> <<TRUE>>
      [] kind = "map[string]string" -> [key \in {"k0"} |-> "v0"]
      [] kind = "map[string]int16" -> [key \in {"k0"} |-> 5]
      [] kind = "map[int16]string" -> [key \in {9} |-> "v0"]

\* what a destination of the given kind holds before the call, by name:
\*   zero  the zero value: a nil slice, map or pointer
\*   held  a slice or map set earlier, or a pointer to one
DestValue(kind, name) ==
    IF name = "zero" THEN Zero(kind)
    ELSE IF IsPtrKind(kind) THEN PtrTo(HeldValue(PointeeKind(kind)))
    ELSE HeldValue(kind)

\* processField(value, field) on a destination of a slice type, or a pointer
\* to one, that is zero or holds a value
SliceCalls ==
    {[fn |-> "processField", kind |-> kd, value |-> RawOf(ps), parts |-> ps, dest |-> d]
       : kd \in SliceKinds \cup {"*[]int16"}, ps \in Seq1UpTo(Pieces, MaxPieces),
         d \in {"zero", "held"}}

\* an entry of a map value: the key k and the value v, each between white
\* space, joined by a colon; or, without colon, the text k alone
MapEntry(colon, kl, k0, kr, vl, v, vr) ==
    [colon |-> colon, kl |-> kl, k |-> k0, kr |-> kr, vl |-> vl, v |-> v, vr |-> vr]

MapEntries == {MapEntry(TRUE, "", "k1", "", "", "v1", ""),
               MapEntry(TRUE, "", "k2", "", "", "v2", ""),
               MapEntry(TRUE, " ", "k1", " ", "\t", "7", " "),
               MapEntry(TRUE, "", "k2", "", "", "a:b", ""),
               MapEntry(TRUE, "", "", "", "", "", ""),
               MapEntry(TRUE, "", "3", " ", "", "v3", ""),
               MapEntry(TRUE, "", "0x3", "", " ", "8", ""),
               MapEntry(FALSE, "", "x", "", "", "", ""),
               MapEntry(FALSE, " ", "", "", "", "", "")}

EntryText(e) ==
    IF e.colon THEN e.kl \o e.k \o e.kr \o ":" \o e.vl \o e.v \o e.vr
    ELSE e.kl \o e.k \o e.kr

MapKinds == {"map[string]string", "map[string]int16", "map[int16]string"}

\* processField(value, field) on a destination of a map type, or a pointer to
\* one, that is zero or holds a value
MapCalls ==
    {[fn |-> "processField", kind |-> kd,
      value |-> Join([i \in 1..Len(es) |-> EntryText(es[i])], ","), parts |-> es,
      dest |-> d]
       : kd \in MapKinds \cup {"*map[string]int16"},
         es \in Seq1UpTo(MapEntries, MaxPieces), d \in {"zero", "held"}}

\* the values of the model, by type
StringValues == {"", "a", " a ", "a,b", "k:v"}
IntValues == {-32768, -7, 0, 8, 32767}

ValuesOf(kind) ==
    CASE kind = "string" -> StringValues
      [] kind = "bool" -> {TRUE, FALSE}
      [] kind = "int16" -> IntValues
      [] kind = "[]byte" -> {BytesOf(str) : str \in {"", "a,b", " x", "0"}}
      [] kind = "[]string" -> SeqUpTo({"a", "b", "", " a", "a,b"}, MaxPieces)
      [] kind = "[]int16" -> SeqUpTo({-7, 0, 8}, MaxPieces)
      [] kind = "[]bool" -> SeqUpTo({TRUE, FALSE}, MaxPieces)
      [] kind = "map[string]string" ->
            UNION {[D -> {"v", "", "a:b", "a,b"}] : D \in SUBSET {"k1", "k2", " k"}}
      [] kind = "map[string]int16" -> UNION {[D -> {-7, 0}] : D \in SUBSET {"k1", "k:"}}
      [] kind = "map[int16]string" -> UNION {[D -> {"v", "w "}] : D \in SUBSET {-7, 3}}

\* the orders in which v.MapKeys() can return the keys of a map
KeyOrders(v) ==
    {q \in [1..Cardinality(DOMAIN v) -> DOMAIN v] :
        \A i, j \in DOMAIN q : q[i] = q[j] => i = j}

\* valueToString(v), followed by processField of the result on a fresh
\* destination of the type of v
RenderCalls ==
    UNION {{[fn |-> "valueToString", kind |-> kd, v |-> v, keys |-> <<>>] : v \in ValuesOf(kd)}
             : kd \in {"string", "bool", "int16", "[]byte"} \cup SliceKinds} \cup
    UNION {UNION {{[fn |-> "valueToString", kind |-> kd, v |-> v, keys |-> q]
                     : q \in KeyOrders(v)} : v \in ValuesOf(kd)}
             : kd \in MapKinds}

MaxEnv == 2

\* entries of os.Environ()
EnvEntries == {"TEST_HOST=x", "HOST=y", "test_HOST=z", "TEST_host=w", "TEST_PORT=8081",
               "TESTHOST=q", "TEST_=e", "TEST_NOEQ"}

\* newEnvSource(prefix) followed by Source(f) for a descriptor f
EnvCalls ==
    {[fn |-> "newEnvSource", prefix |-> px, f |-> [EnvVar |-> ev]]
       : px \in {"TEST", "test", ""}, ev \in {"HOST", "PORT"}}

Calls == SliceCalls \cup MapCalls \cup RenderCalls \cup EnvCalls

InitCalls ==
    /\ call \in Calls
    /\ ret = NoCall
    /\ pc = "call"
    /\ typ = Target(<<>>)
    /\ environ \in IF call.fn = "newEnvSource" THEN SeqUpTo(EnvEntries, MaxEnv) ELSE {<<>>}
    /\ args = <<>>
    /\ mutators = <<>>
    /\ parsers = <<>>
    /\ rec = <<>>
    /\ rec0 = <<>>
    /\ rec1 = <<>>
    /\ run = 1
    /\ pidx = 1
    /\ flagm = EmptyMap
    /\ envm = EmptyMap
    /\ fields = <<>>
    /\ k = 1
    /\ err = NoErr
    /\ log = <<>>

calling == <<inputs, rec, rec0, rec1, run, pidx, flagm, envm, fields, k, err, log, call>>

\* processField(call.value, field) on a fresh destination of type call.kind
CallProcessField ==
    /\ pc = "call" /\ call.fn = "processField"
    /\ ret' = processFieldAt(call.value, call.kind, DestValue(call.kind, call.dest))
    /\ pc' = "return"
    /\ UNCHANGED calling

\* valueToString(call.v)
Render ==
    /\ pc = "call" /\ call.fn = "valueToString"
    /\ ret' = [str |-> valueToString(call.v, call.kind, call.keys)]
    /\ pc' = "rendered"
    /\ UNCHANGED calling

\* processField(str, field) of the rendered string on a fresh destination of
\* the type of call.v
CoerceBack ==
    /\ pc = "rendered"
    /\ \E r \in {processField(ret.str, call.kind)} :
          ret' = [str |-> ret.str, err |-> r.err, v |-> r.v]
    /\ pc' = "return"
    /\ UNCHANGED calling

\* newEnvSource(call.prefix) on the environment environ
CallNewEnvSource ==
    /\ pc = "call" /\ call.fn = "newEnvSource"
    /\ \E r \in {newEnvSource_prefix(call.prefix, environ)} :
          /\ envm' = r.m
          /\ err' = r.err
          /\ pc' = IF r.err = NoErr THEN "source" ELSE "return"
    /\ UNCHANGED <<inputs, rec, rec0, rec1, run, pidx, flagm, fields, k, log, call, ret>>

\* Source(call.f) on the environment source
CallSource ==
    /\ pc = "source"
    /\ ret' = envSource(envm, call.f)
    /\ pc' = "return"
    /\ UNCHANGED calling

NextCalls == CallProcessField \/ Render \/ CoerceBack \/ CallNewEnvSource \/ CallSource

SpecCalls == InitCalls /\ [][NextCalls]_vars

-----------------------------------------------------------------------------
(* Properties                                                              *)

\* the call has returned nil
Succeeded == pc = "done" /\ err = NoErr

\* the sources as the loop body sees them
FlagHit(f) == flagSource(flagm, f)[2]
FlagRaw(f) == flagSource(flagm, f)[1]
EnvHit(f) == envSource(envm, f)[2]
EnvRaw(f) == envSource(envm, f)[1]

\* the value of kind f.kind that raw yields once mutated and coerced
Coerced(f, raw) == processField(mutateLoop(mutators, 1, f, raw, "", <<>>).val, f.kind).v

\* C1: after a successful Process every described field holds the coerced flag
\* value if the flag source resolves its descriptor, otherwise the coerced
\* environment value if the environment resolves it, otherwise the coerced
\* default if one is declared, otherwise the zero value of its type.
C1_Precedence ==
    (Succeeded /\ parsers = <<>>) =>
        \A i \in 1..Len(fields) :
            LET f == fields[i] IN
            rec[f.path] = IF FlagHit(f) THEN Coerced(f, FlagRaw(f))
                          ELSE IF EnvHit(f) THEN Coerced(f, EnvRaw(f))
                          ELSE IF f.Default # "" THEN processField(f.Default, f.kind).v
                          ELSE Zero(f.kind)

\* flag, environment and default all offer a different value for one field, and
\* the field holds the flag's
C1_Witness ==
    /\ Succeeded /\ parsers = <<>>
    /\ \E i \in 1..Len(fields) :
          LET f == fields[i] IN
          /\ FlagHit(f) /\ EnvHit(f) /\ f.Default # ""
          /\ Coerced(f, FlagRaw(f)) # Coerced(f, EnvRaw(f))
          /\ Coerced(f, EnvRaw(f)) # processField(f.Default, f.kind).v
          /\ Coerced(f, FlagRaw(f)) # processField(f.Default, f.kind).v
          /\ rec[f.path] = Coerced(f, FlagRaw(f))

\* the entries a step appends to the call log
NewLog == SubSeq(log', Len(log) + 1, Len(log'))

\* C2: the loop body coerces the default of a field exactly when the default
\* tag is non-empty and the field holds its zero value at that moment; when no
\* source resolves the descriptor the field then ends with the coerced default
\* if it was zero and keeps what it held (a parser's value) otherwise.
C2_DefaultWhenZero ==
    [][pc = "fields" =>
         LET f == fields[k]
             zero == rec[f.path] = Zero(f.kind)
         IN /\ (\E j \in 1..Len(NewLog) :
                    /\ NewLog[j].ev = "coerce" /\ NewLog[j].src = "default"
                    /\ NewLog[j].key = f.Name /\ NewLog[j].in = f.Default)
                <=> (f.Default # "" /\ zero)
            /\ (~FlagHit(f) /\ ~EnvHit(f)) =>
                   rec'[f.path] = IF f.Default # "" /\ zero
                                  THEN processField(f.Default, f.kind).v
                                  ELSE rec[f.path]]_vars

\* a call where a parser set one defaulted field and left another alone, no
\* source resolves either: the first keeps the parser's value, the second ends
\* with its default
C2_Witness ==
    /\ Succeeded
    /\ \E i, j \in 1..Len(fields) :
          LET f == fields[i]
              g == fields[j]
          IN /\ f.Default # "" /\ ~FlagHit(f) /\ ~EnvHit(f)
             /\ rec0[f.path] # Zero(f.kind)
             /\ rec0[f.path] # processField(f.Default, f.kind).v
             /\ rec[f.path] = rec0[f.path]
             /\ g.Default # "" /\ ~FlagHit(g) /\ ~EnvHit(g)
             /\ rec0[g.path] = Zero(g.kind)
             /\ rec[g.path] = processField(g.Default, g.kind).v
             /\ rec[g.path] # Zero(g.kind)

\* the required-field error naming the descriptor f
RequiredFieldMissing(f) == Err("RequiredFieldMissing", "required field not set: " \o f.Name)

C4_SuppliedValueAccepted ==
    \A i \in 1..Len(fields) :
        LET f == fields[i] IN
        (/\ pc = "done" /\ k = i + 1 /\ f.Required
         /\ FlagHit(f) \/ EnvHit(f)
         /\ \E j \in 1..Len(log) :
               /\ log[j].ev = "coerce" /\ log[j].key = f.Name
               /\ log[j].src \in {"env", "flag"} /\ log[j].out = "ok")
        => err # RequiredFieldMissing(f)

\* the declarations extraction visits: exported, env tag not "-", not below a
\* struct it skips
RECURSIVE VisitedDecls(_)
VisitedDecls(decls) ==
    UNION {IF ~decls[i].exported \/ decls[i].env = "-" THEN {}
           ELSE {decls[i]} \cup VisitedDecls(decls[i].fields) : i \in 1..Len(decls)}

\* every leaf declaration, visited or not
AllLeaves(t) == {DeclAt(t.decls, p) : p \in LeafPaths(<<>>, t.decls)}

BothTags(sf) == sf.required = "true" /\ sf.default # ""

\* the explicit tags of a declaration pass the checks that precede the conflict check
TagsValid(sf) ==
    /\ sf.env = "" \/ validateEnvVarName(sf.env)
    /\ sf.flag = "" \/ validateFlagName(sf.flag)
    /\ Len(sf.shortFlag) <= 1

\* extractFields has been called: the parsers and newFlagParser returned nil
ExtractionRan ==
    /\ pc \in {"fields", "done"}
    /\ err.kind # "ParserFailed"
    /\ newFlagParser(args).err = NoErr

ExtractionErrors == {"TagConflict", "InvalidName", "InvalidShortFlag"}

Dashes(s) == IF Len(s) >= 2 /\ Ch(s, 2) = "-" THEN 2 ELSE 1
Body(s) == SubSeq(s, Dashes(s) + 1, Len(s))
WellFormed(s) ==
    /\ Len(s) >= 2 /\ Ch(s, 1) = "-"
    /\ Body(s) # "" /\ Ch(Body(s), 1) \notin {"-", "="}
HasEq(s) == IndexOf(s, "=") # 0
ArgName(s) == IF HasEq(Body(s)) THEN SubSeq(Body(s), 1, IndexOf(Body(s), "=") - 1) ELSE Body(s)
HelpNames == {"help", "h"}
VersionNames == {"version", "v"}
ReservedArg(s) == WellFormed(s) /\ ArgName(s) \in HelpNames \cup VersionNames
OrdinaryFlag(s) == WellFormed(s) /\ ArgName(s) \notin HelpNames \cup VersionNames

\* args[j] is the value of the value-less flag before it
ConsumedValue(j) ==
    /\ j > 1 /\ OrdinaryFlag(args[j - 1]) /\ ~HasEq(args[j - 1])
    /\ args[j] # "" /\ Ch(args[j], 1) # "-"

\* every argument before args[i] is an ordinary flag or the value of one
PrefixOrdinary(i) == \A j \in 1..(i - 1) : OrdinaryFlag(args[j]) \/ ConsumedValue(j)

\* newFlagParser has been called
FlagsParsed == pc \notin {"parsers", "flags"} /\ err.kind # "ParserFailed"

FlagKey(f) == IF f.ShortFlag # "" /\ f.ShortFlag \in DOMAIN flagm THEN f.ShortFlag ELSE f.Flag

\* C7: for a boolean descriptor a flag present without a value resolves to
\* "true", and the loop body, once it consults the flag source, sets the field
\* to true without error; a flag given as =false resolves to "false" and sets
\* the field to false; the last argument --flag (resp. --flag=false) of a
\* well-formed argument list is such a flag.
C7_BoolFlag ==
    [][(pc = "fields" /\ fields[k].kind = "bool") =>
         LET f == fields[k]
             n == Len(args)
             last == IF n = 0 THEN "" ELSE args[n]
             only == n > 0 /\ PrefixOrdinary(n) /\ ~(f.ShortFlag # "" /\ f.ShortFlag \in DOMAIN flagm)
             asked == \E j \in 1..Len(NewLog) : NewLog[j].ev = "resolve" /\ NewLog[j].src = "flag"
         IN /\ (only /\ last = "--" \o f.Flag) =>
                   f.Flag \in DOMAIN flagm /\ ~flagm[f.Flag].HasValue
            /\ (only /\ last = "--" \o f.Flag \o "=false") =>
                   f.Flag \in DOMAIN flagm /\ flagm[f.Flag] = flagValue(TRUE, "false")
            /\ FlagKey(f) \in DOMAIN flagm =>
                   /\ ~flagm[FlagKey(f)].HasValue =>
                          /\ FlagRaw(f) = "true"
                          /\ (asked /\ mutators = <<>>) => rec'[f.path] = TRUE /\ err' = NoErr
                   /\ flagm[FlagKey(f)] = flagValue(TRUE, "false") =>
                          /\ FlagRaw(f) = "false"
                          /\ (asked /\ mutators = <<>>) =>
                                 /\ rec'[f.path] = FALSE
                                 /\ err'.kind \in {"nil", "RequiredFieldMissing"}]_vars

\* the only argument is the bare long flag of a boolean field that the
\* environment sets to false, and the call leaves the field true
C7_Witness ==
    /\ Succeeded /\ mutators = <<>>
    /\ \E i \in 1..Len(fields) :
          LET f == fields[i] IN
          /\ f.kind = "bool" /\ args = <<"--" \o f.Flag>> /\ EnvHit(f)
          /\ Coerced(f, EnvRaw(f)) = FALSE
          /\ rec[f.path] = TRUE

\* the argument list with args[i] and args[i+1] joined by "="
Joined(i) ==
    SubSeq(args, 1, i - 1) \o <<args[i] \o "=" \o args[i + 1]>> \o SubSeq(args, i + 2, Len(args))

\* C8: a flag followed by a separate argument that does not start with a hyphen
\* gives what the joined form --name=value gives, and a following argument that
\* starts with a hyphen is not consumed but parsed as a flag of its own.
C8_SeparateEqualsJoined ==
    FlagsParsed =>
        \A i \in 1..(Len(args) - 1) :
            (OrdinaryFlag(args[i]) /\ ~HasEq(args[i]) /\ PrefixOrdinary(i)) =>
                IF args[i + 1] = "" \/ Ch(args[i + 1], 1) # "-"
                THEN /\ err.kind # "panic"
                     /\ newFlagParser(args) = newFlagParser(Joined(i))
                ELSE (OrdinaryFlag(args[i + 1]) /\ i + 1 = Len(args)
                      /\ ArgName(args[i + 1]) # ArgName(args[i])) =>
                        /\ flagm[ArgName(args[i])] = flagValue(FALSE, "")
                        /\ ArgName(args[i + 1]) \in DOMAIN flagm

\* the supplied mutators that are not nil, by index
Live == {i \in 1..Len(mutators) : mutators[i] # "nil"}

\* the first live mutator after index i, 0 if there is none
NextLive(i) ==
    IF \E j \in Live : j > i
    THEN CHOOSE j \in Live : j > i /\ \A h \in Live : h > i => j <= h
    ELSE 0

\* what follows entry j of the segment seg once the value val has come out of
\* mutator idx (0: out of the source): the next live mutator, or the coercer
\* when none is left, called with val for the same source
HandsOn(seg, j, idx, val) ==
    /\ j < Len(seg)
    /\ seg[j + 1].src = seg[j].src /\ seg[j + 1].in = val
    /\ IF NextLive(idx) = 0 THEN seg[j + 1].ev = "coerce"
       ELSE seg[j + 1].ev = "mutator" /\ seg[j + 1].idx = NextLive(idx)

RECURSIVE PathWords(_, _)
PathWords(decls, path) ==
    LET sf == decls[path[1]] IN
    IF Len(path) = 1 THEN splitCamelCase(sf.name)
    ELSE (IF sf.anonymous THEN <<>> ELSE splitCamelCase(sf.name))
         \o PathWords(sf.fields, Tail(path))

\* C10: a descriptor without explicit env/flag tag gets the upper-cased
\* "_"-join and the lower-cased "-"-join of the word-split structural names on
\* its path, a named nested struct contributing its words and an embedded one
\* none; an explicit tag is used verbatim, without inherited prefix.  In the
\* record in the shape of conf: HTTP.Host -> HTTP_HOST / http-host,
\* HTTP.Addr (tagged) -> ADDR / addr, Embedded.ApiKey -> API_KEY / api-key.
C10_DerivedNames ==
    (pc \in {"fields", "done"} /\ fields # <<>>) =>
        /\ \A i \in 1..Len(fields) :
              LET f == fields[i]
                  sf == DeclAt(typ.decls, f.path)
                  w == PathWords(typ.decls, f.path)
              IN /\ f.EnvVar = IF sf.env = "" THEN ToUpper(Join(w, "_")) ELSE sf.env
                 /\ f.Flag = IF sf.flag = "" THEN ToLower(Join(w, "-")) ELSE sf.flag
        /\ typ = TConf =>
               [i \in 1..Len(fields) |-> <<fields[i].EnvVar, fields[i].Flag>>]
                   = << <<"HOST", "host">>, <<"PORT", "port">>, <<"HTTP_HOST", "http-host">>,
                        <<"ADDR", "addr">>, <<"API_KEY", "api-key">> >>

\* the nested and the embedded field resolve from the environment under their
\* derived names
C10_Witness ==
    /\ Succeeded /\ mutators = <<>> /\ parsers = <<>>
    /\ environ = <<"HTTP_HOST=", "API_KEY=k">>
    /\ \E i, j \in 1..Len(fields) :
          /\ fields[i].EnvVar = "API_KEY" /\ Len(fields[i].path) = 2
          /\ rec[fields[i].path] = "k"
          /\ fields[j].EnvVar = "HTTP_HOST" /\ fields[j].Flag = "http-host"

\* C11: after a successful Process, a field whose type implements Decode and
\* whose environment variable is set has had that raw value handed to its
\* Decode method; the README's MyType then holds it in Value.
C11_DecoderReceivesResolvedValue ==
    Succeeded =>
        \A i \in 1..Len(typ.decls) :
            (typ.decls[i].decoder # "" /\ typ.decls[i].env \in DOMAIN envm) =>
                /\ \E j \in 1..Len(log) :
                      /\ log[j].ev = "decode"
                      /\ log[j].key = typ.decls[i].name
                      /\ log[j].in = envm[typ.decls[i].env]
                /\ typ.decls[i].decoder = "MyType" => rec[<<i, 1>>] = envm[typ.decls[i].env]

\* the record after the first n parsers ran on the zero record
RECURSIVE AfterParsers(_)
AfterParsers(n) ==
    IF n = 0 THEN ZeroRecord(typ)
    ELSE ApplyParser(parsers[n], typ, AfterParsers(n - 1)).rec

\* C12: the parsers are invoked once each in the supplied order before any
\* flag, environment or default handling; when one fails the call ends with its
\* error, no later parser was invoked, no source was built, no descriptor was
\* extracted and the record holds what the parsers before it stored.
C12_ParsersFirstInOrder ==
    /\ \A j \in 1..Len(log) :
          log[j].ev = "parser" =>
              j <= Len(parsers) /\ log[j].idx = j /\ log[j].src = parsers[j]
    /\ pc = "parsers" =>
          /\ Len(log) = pidx - 1
          /\ flagm = EmptyMap /\ envm = EmptyMap /\ fields = <<>>
    /\ (pc # "parsers" /\ err.kind # "ParserFailed") =>
          /\ Len(log) >= Len(parsers)
          /\ \A j \in 1..Len(parsers) : log[j].ev = "parser" /\ log[j].out = "ok"
    /\ err.kind = "ParserFailed" =>
          /\ pc = "done"
          /\ Len(log) \in 1..Len(parsers)
          /\ \A j \in 1..Len(log) :
                log[j].ev = "parser" /\ log[j].out = (IF j = Len(log) THEN "error" ELSE "ok")
          /\ flagm = EmptyMap /\ envm = EmptyMap /\ fields = <<>>
          /\ rec = AfterParsers(Len(log) - 1)

\* a parser failed after an earlier one stored a value and before a later one,
\* on a record that declares defaults
C12_Witness ==
    /\ err.kind = "ParserFailed"
    /\ Len(log) = 2 /\ Len(parsers) = 3
    /\ rec # ZeroRecord(typ)
    /\ \E sf \in AllLeaves(typ) : sf.default # ""

\* the second call on the record that the first call returned has ended
SecondDone == run = 2 /\ pc = "done"

\* every default tag of a visited field coerces to the type of its field
DefaultsCoerce ==
    \A sf \in VisitedDecls(typ.decls) :
        (sf.kind # "struct" /\ sf.default # "") => processField(sf.default, sf.kind).err = NoErr

\* C13 as stated: a second Process on the record that a successful call
\* returned, with the same environment, arguments and mutators, succeeds and
\* leaves every field as the first call left it.
C13_SecondRunSame == SecondDone => (err = NoErr /\ rec = rec1)

\* C13: the same, for records whose default tags coerce to the types of their
\* fields.
C13_SecondRunSameCoercible == (SecondDone /\ DefaultsCoerce) => (err = NoErr /\ rec = rec1)

\* the second call ended on a record that the first call filled from a parser,
\* a default, the environment and a flag, through a mutator
C13_Witness ==
    /\ SecondDone /\ DefaultsCoerce
    /\ rec1 # ZeroRecord(typ)
    /\ mutators # <<>>
    /\ \E i, j \in 1..Len(log) :
          /\ log[i].ev = "coerce" /\ log[i].src = "default"
          /\ log[j].ev = "coerce" /\ log[j].src = "flag"

\* the call of processField on a destination of a slice type returned
SliceReturned ==
    /\ pc = "return" /\ call.fn = "processField"
    /\ IsSliceKind(call.kind) /\ call.kind # "[]byte"

\* the coercion of the text of piece i into the element type
ElemOf(i) == processField(call.parts[i].c, ElemKind(call.kind))

\* C17: a raw string coerced into a slice whose elements are not bytes yields
\* one element per comma-separated piece, in input order, each the coercion of
\* the piece without the white space around it; when a piece does not coerce
\* the call returns the error of the first such piece.
C17_SliceSplitTrim ==
    SliceReturned =>
        LET n == Len(call.parts)
            bad == {i \in 1..n : ElemOf(i).err # NoErr}
        IN IF bad = {}
           THEN /\ ret.err = NoErr
                /\ Len(ret.v) = n
                /\ \A i \in 1..n : ret.v[i] = ElemOf(i).v
           ELSE ret.err = ElemOf(CHOOSE i \in bad : \A j \in bad : i <= j).err

\* "a, b ,c" and more: three pieces, white space around some, all coerced
C17_Witness ==
    /\ SliceReturned /\ ret.err = NoErr
    /\ Len(call.parts) = 3
    /\ \E i \in 1..3 : call.parts[i].l # "" /\ call.parts[i].r # "" /\ call.parts[i].c # ""
    /\ ret.v = <<"a", "b", "c">>

\* the call of processField on a destination of a map type returned
MapReturned == pc = "return" /\ call.fn = "processField" /\ IsMapKind(call.kind)

\* the coercions of the key and of the value of entry i
KeyOf(i) == processField(call.parts[i].k, KeyKind(call.kind))
ValueOf(i) == processField(call.parts[i].v, ValueKind(call.kind))

\* the error that entry i raises, NoErr if none
EntryErr(i) ==
    IF ~call.parts[i].colon
    THEN Err("InvalidMapEntry", "invalid map value: " \o EntryText(call.parts[i]))
    ELSE IF KeyOf(i).err # NoErr THEN KeyOf(i).err
    ELSE ValueOf(i).err

\* C18: a raw string coerced into a map is split on ',' into entries and each
\* entry on its first ':' into key and value, both trimmed and coerced into the
\* key and value types; the map holds, for each key, the value of the last
\* entry with that key.  The first entry, in input order, that has no ':' or
\* whose key or value does not coerce ends the call with its error, which for an
\* entry without ':' is the invalid-map-entry error.
C18_MapEntries ==
    MapReturned =>
        LET n == Len(call.parts)
            bad == {i \in 1..n : EntryErr(i) # NoErr}
        IN IF bad = {}
           THEN /\ ret.err = NoErr
                /\ DOMAIN ret.v = {KeyOf(i).v : i \in 1..n}
                /\ \A i \in 1..n :
                      (\A j \in (i + 1)..n : KeyOf(j).v # KeyOf(i).v) =>
                          ret.v[KeyOf(i).v] = ValueOf(i).v
           ELSE ret.err = EntryErr(CHOOSE i \in bad : \A j \in bad : i <= j)

\* "k1:v1,k2:v2" with a later entry for k1 that overwrites the first
C18_Witness ==
    /\ MapReturned /\ ret.err = NoErr
    /\ call.kind = "map[string]string"
    /\ Len(call.parts) = 3
    /\ call.parts[1].k = "k1" /\ call.parts[1].v = "v1"
    /\ call.parts[2].k = "k2" /\ call.parts[2].v = "v2"
    /\ call.parts[3].k = "k1" /\ call.parts[3].kl # ""
    /\ ret.v["k1"] = "7" /\ ret.v["k2"] = "v2"

\* a value was rendered and the result coerced back
RoundTripDone == pc = "return" /\ call.fn = "valueToString"

Plain1(str, seps) ==
    /\ str = "" \/ (~IsSpace(Ch(str, 1)) /\ ~IsSpace(Ch(str, Len(str))))
    /\ \A i \in 1..Len(str) : Ch(str, i) \notin seps

\* the values whose rendering keeps their structure
Faithful(v, kind) ==
    CASE IsSliceKind(kind) /\ kind # "[]byte" ->
            /\ Len(v) >= 1
            /\ \A i \in 1..Len(v) : Plain1(valueToString(v[i], ElemKind(kind), <<>>), {","})
      [] IsMapKind(kind) ->
            /\ DOMAIN v # {}
            /\ \A x \in DOMAIN v :
                  /\ Plain1(valueToString(x, KeyKind(kind), <<>>), {",", ":"})
                  /\ Plain1(valueToString(v[x], ValueKind(kind), <<>>), {","})
      [] OTHER -> TRUE

EnvBuilt == call.fn = "newEnvSource" /\ pc \in {"source", "return"} /\ call.prefix # ""

\* the key and the value of an entry of the environment
EntryKey(e) == SubSeq(e, 1, IndexOf(e, "=") - 1)
EntryValue(e) == SubSeq(e, IndexOf(e, "=") + 1, Len(e))

\* the key carries the prefix P_, compared without regard to case
CarriesPrefix(key, P) ==
    /\ Len(key) >= Len(P) + 1
    /\ ToUpper(SubSeq(key, 1, Len(P) + 1)) = ToUpper(P) \o "_"

Stripped(key, P) == SubSeq(key, Len(P) + 2, Len(key))

\* the entries of the environment the source is to hold
Prefixed ==
    {i \in 1..Len(environ) :
        IndexOf(environ[i], "=") > 0 /\ CarriesPrefix(EntryKey(environ[i]), call.prefix)}

\* C16: with a prefix P the environment source holds exactly the variables
\* whose key carries P_, compared without regard to case, under their name
\* with P_ stripped.
C16_PrefixedExactly ==
    EnvBuilt =>
        /\ err = NoErr
        /\ DOMAIN envm = {Stripped(EntryKey(environ[i]), call.prefix) : i \in Prefixed}
        /\ \A i \in Prefixed :
              (\A j \in Prefixed :
                  (j > i => EntryKey(environ[j]) # EntryKey(environ[i]))) =>
                  envm[Stripped(EntryKey(environ[i]), call.prefix)] = EntryValue(environ[i])

\* the example of C16: with the prefix TEST, TEST_HOST=x resolves the
\* descriptor with envVar HOST and a bare HOST=y does not
C16_Example ==
    (EnvBuilt /\ pc = "return" /\ err = NoErr /\ call.f.EnvVar = "HOST") =>
        /\ environ = <<"TEST_HOST=x", "HOST=y">> => ret = <<"x", TRUE>>
        /\ environ = <<"HOST=y">> => ret = <<"", FALSE>>

\* [A-Z0-9_]+ that does not start with a digit
EnvGrammar(name) ==
    /\ name # ""
    /\ \A i \in 1..Len(name) : Ch(name, i) \in Upper \cup Digit \cup {"_"}
    /\ Ch(name, 1) \notin Digit

\* [a-z][a-z0-9-]* that does not end in '-' and has no two consecutive hyphens
FlagGrammar(name) ==
    /\ name # ""
    /\ Ch(name, 1) \in Lower
    /\ \A i \in 1..Len(name) : Ch(name, i) \in Lower \cup Digit \cup {"-"}
    /\ Ch(name, Len(name)) # "-"
    /\ \A i \in 1..(Len(name) - 1) : ~(Ch(name, i) = "-" /\ Ch(name, i + 1) = "-")

\* C15: every descriptor of a successful extraction has an envVar and a flag
\* that follow their grammars, whether given by a tag or derived from the field
\* name, and an explicit tag that violates its grammar makes extraction fail.
C15_NamesWellFormed ==
    (typ.target = "ptrStruct" /\ ExtractionRan) =>
        /\ \A i \in 1..Len(fields) :
              EnvGrammar(fields[i].EnvVar) /\ FlagGrammar(fields[i].Flag)
        /\ (\E sf \in VisitedDecls(typ.decls) :
               \/ sf.env # "" /\ ~EnvGrammar(sf.env)
               \/ sf.flag # "" /\ ~FlagGrammar(sf.flag))
           => (fields = <<>> /\ err.kind \in ExtractionErrors)

\* the storage paths of the leaves that extraction is to leave out: below
\* base, those of unexported fields, of fields with the env tag "-" and of the
\* fields nested under either; out tells that an enclosing field is left out
RECURSIVE SkippedPaths(_, _, _)
SkippedPaths(base, decls, out) ==
    UNION {LET o == out \/ ~decls[i].exported \/ decls[i].env = "-" IN
           IF decls[i].kind = "struct"
           THEN SkippedPaths(Append(base, i), decls[i].fields, o)
           ELSE IF o THEN {Append(base, i)} ELSE {}
           : i \in 1..Len(decls)}

\* C19: a field that is unexported or carries the env tag "-", and every field
\* nested under one, has no descriptor and holds after the flag parsing,
\* extraction and the loop over the descriptors what it held when Process
\* began them, whatever the environment and the arguments contain.
C19_SkippedUntouched ==
    (pc \in {"extract", "fields", "done"} /\ err.kind # "ParserFailed") =>
        \A p \in SkippedPaths(<<>>, typ.decls, FALSE) :
            /\ rec[p] = rec0[p]
            /\ \A i \in 1..Len(fields) : fields[i].path # p

\* a successful call that set an exported field while the environment and the
\* arguments name the skipped fields, one of which a parser had filled
C19_Witness ==
    /\ Succeeded /\ typ = TSkip
    /\ Len(fields) = 1 /\ rec[fields[1].path] # rec0[fields[1].path]
    /\ \E i \in 1..Len(args) : args[i] = "--skipped=s"
    /\ \E i \in 1..Len(environ) : environ[i] = "INNER_HOST=i"
    /\ rec[<<2>>] = "file"

\* the loop over the descriptors ended with an error, at descriptor k - 1
LoopAborted == pc = "done" /\ err # NoErr /\ fields # <<>>

\* the value the loop body gives to the field of f when it raises no error
Resolved(f) ==
    IF FlagHit(f) THEN Coerced(f, FlagRaw(f))
    ELSE IF EnvHit(f) THEN Coerced(f, EnvRaw(f))
    ELSE IF f.Default # "" /\ rec0[f.path] = Zero(f.kind) THEN processField(f.Default, f.kind).v
    ELSE rec0[f.path]

\* C20: when the loop over the descriptors ends with an error at descriptor
\* k - 1, every descriptor before it holds its resolved value, and every
\* descriptor after it holds what it held before the loop and no default or
\* source value was coerced or resolved for it.
C20_NoRollbackNoLookAhead ==
    LoopAborted =>
        /\ \A i \in 1..(k - 2) : rec[fields[i].path] = Resolved(fields[i])
        /\ \A i \in k..Len(fields) :
              /\ rec[fields[i].path] = rec0[fields[i].path]
              /\ \A j \in 1..Len(log) :
                    log[j].ev \in {"resolve", "coerce", "mutator"} => log[j].key # fields[i].Name

\* the error came at a descriptor in the middle: an earlier one took a value
\* from a source, a later one declares a default and is named by the
\* environment, and holds neither
C20_Witness ==
    /\ LoopAborted /\ k - 1 > 1 /\ k - 1 < Len(fields)
    /\ \E i \in 1..(k - 2) :
          /\ FlagHit(fields[i]) \/ EnvHit(fields[i])
          /\ rec[fields[i].path] # rec0[fields[i].path]
    /\ \E i \in k..Len(fields) :
          /\ fields[i].Default # "" /\ EnvHit(fields[i])
          /\ EnvRaw(fields[i]) # ""
          /\ rec[fields[i].path] = Zero(fields[i].kind)

\* the default of f does not coerce and the loop body would try it on a field
\* holding v0
DefaultFails(f, v0) ==
    f.Default # "" /\ IsZero(f.kind, v0) /\ processField(f.Default, f.kind).err # NoErr

\* raw passes the mutators and the result does not coerce to the kind of f
RawFails(f, raw) ==
    /\ mutateLoop(mutators, 1, f, raw, "", <<>>).err = NoErr
    /\ processField(mutateLoop(mutators, 1, f, raw, "", <<>>).val, f.kind).err # NoErr

\* the error of coercing raw, once mutated, to the kind of f
Coerced_err(f, raw) ==
    processField(mutateLoop(mutators, 1, f, raw, "", <<>>).val, f.kind).err

\* C21: each value is coerced when its source is visited, default, then
\* environment, then flag.  A default that does not coerce ends the call with
\* the coercion error before any source is asked; an environment value that
\* does not coerce ends it before the flag source is asked, whatever the flags
\* supply.  The field keeps what it held before the failing coercion.
C21_LowerFailureAborts ==
    [][pc = "fields" =>
        LET f == fields[k]
            v0 == rec[f.path]
            v1 == IF f.Default # "" /\ IsZero(f.kind, v0)
                  THEN processField(f.Default, f.kind).v ELSE v0
        IN  /\ DefaultFails(f, v0) =>
                  /\ pc' = "done"
                  /\ err'.kind = processField(f.Default, f.kind).err.kind
                  /\ rec'[f.path] = v0
                  /\ \A j \in 1..Len(NewLog) : NewLog[j].src = "default"
            /\ (~DefaultFails(f, v0) /\ EnvHit(f) /\ RawFails(f, EnvRaw(f))) =>
                  /\ pc' = "done"
                  /\ err'.kind = Coerced_err(f, EnvRaw(f)).kind
                  /\ rec'[f.path] = v1
                  /\ \A j \in 1..Len(NewLog) : NewLog[j].src # "flag"
    ]_vars

\* the loop ended on an environment value that does not coerce while the flags
\* supply one that does
C21_Witness ==
    /\ LoopAborted
    /\ log # <<>> /\ log[Len(log)].ev = "coerce" /\ log[Len(log)].src = "env"
    /\ log[Len(log)].out = "error"
    /\ FlagHit(fields[k - 1]) /\ ~RawFails(fields[k - 1], FlagRaw(fields[k - 1]))
    /\ mutateLoop(mutators, 1, fields[k - 1], FlagRaw(fields[k - 1]), "", <<>>).err = NoErr

\* the paths of the leaf fields extraction is to describe, depth-first in
\* declaration order from declaration i of decls: exported, env tag not "-",
\* not a struct, not below a struct that is left out
RECURSIVE EligibleLeaves(_, _, _)
EligibleLeaves(base, decls, i) ==
    IF i > Len(decls) THEN <<>>
    ELSE (IF ~decls[i].exported \/ decls[i].env = "-" THEN <<>>
          ELSE IF decls[i].kind = "struct"
          THEN EligibleLeaves(Append(base, i), decls[i].fields, 1)
          ELSE <<Append(base, i)>>)
         \o EligibleLeaves(base, decls, i + 1)

\* C22: the sequence extraction returns holds no descriptor of struct kind; a
\* struct field is replaced at its position by the descriptors of its fields,
\* so the descriptors are those of the eligible leaf fields, each once, in
\* depth-first declaration order.
C22_LeavesDepthFirst ==
    (pc = "fields" \/ fields # <<>>) =>
        /\ \A i \in 1..Len(fields) : fields[i].kind # "struct"
        /\ [i \in 1..Len(fields) |-> fields[i].path] = EligibleLeaves(<<>>, typ.decls, 1)

\* a struct field declared before a leaf field: its fields are described at
\* its position, the leaf after them
C22_Witness ==
    /\ pc = "done"
    /\ \E i \in 1..Len(fields) : \E j \in (i + 1)..Len(fields) :
          /\ Len(fields[i].path) > 1 /\ Len(fields[j].path) = 1
          /\ DeclAt(typ.decls, SubSeq(fields[i].path, 1, 1)).kind = "struct"

\* the parsed arguments hold the short flag of f
ShortGiven(f) == f.ShortFlag # "" /\ f.ShortFlag \in DOMAIN flagm

\* what the parsed arguments give for the name key to a field of the kind of f
GivenFor(f, key) ==
    IF f.kind = "bool" /\ ~flagm[key].HasValue THEN "true" ELSE flagm[key].Value

\* C23: the flag source resolves a descriptor by its short flag when the parsed
\* arguments hold it, by its long flag name only when they do not, and not at
\* all when they hold neither; the value the loop body receives from the flag
\* source is that value, so with -p X and --port Y both given it is X.
C23_ShortFlagFirst ==
    \A i \in 1..Len(fields) :
        LET f == fields[i]
            expected == IF ShortGiven(f) THEN <<GivenFor(f, f.ShortFlag), TRUE>>
                        ELSE IF f.Flag \in DOMAIN flagm THEN <<GivenFor(f, f.Flag), TRUE>>
                        ELSE <<"", FALSE>>
        IN  /\ flagSource(flagm, f) = expected
            /\ \A j \in 1..Len(log) :
                  (log[j].ev = "resolve" /\ log[j].src = "flag" /\ log[j].key = f.Name) =>
                      expected[2] /\ log[j].in = expected[1]

\* both the short and the long flag of a descriptor were given, with different
\* values, and the loop body received the one of the short flag
C23_Witness ==
    \E i \in 1..Len(fields) :
        LET f == fields[i] IN
        /\ ShortGiven(f) /\ f.Flag \in DOMAIN flagm
        /\ flagm[f.ShortFlag].Value # flagm[f.Flag].Value
        /\ \E j \in 1..Len(log) :
              /\ log[j].ev = "resolve" /\ log[j].src = "flag" /\ log[j].key = f.Name
              /\ log[j].in = flagm[f.ShortFlag].Value

\* args[i] is where the argument loop is to break: not the value of the flag
\* before it, and too short or without a leading hyphen
Positional(i) ==
    /\ PrefixOrdinary(i) /\ ~ConsumedValue(i)
    /\ Len(args[i]) < 2 \/ Ch(args[i], 1) # "-"

\* C24: flag parsing stops at the first argument that is not the value of the
\* flag before it and that does not start with a hyphen or is shorter than two
\* characters: the parser returns without error the source built from the
\* arguments before that one, and no later argument adds to it.
C24_StopsAtPositional ==
    FlagsParsed =>
        \A i \in 1..Len(args) :
            Positional(i) =>
                /\ err.kind \notin {"panic", "BadFlagSyntax", "ErrHelp", "ErrVersion"}
                /\ newFlagParser(args) = newFlagParser(SubSeq(args, 1, i - 1))
                /\ flagm = newFlagParser(SubSeq(args, 1, i - 1)).m

\* the record is no pointer to a struct, or a field extraction visits carries
\* both required:"true" and a default
BadRecord == typ.target # "ptrStruct" \/ \E sf \in VisitedDecls(typ.decls) : BothTags(sf)

\* args[i] is the empty argument after a value-less flag
EmptyAfterFlag(i) == i > 1 /\ args[i] = "" /\ OrdinaryFlag(args[i - 1]) /\ ~HasEq(args[i - 1])

\* the argument loop reaches an argument it does not accept: a hyphenated one
\* that is reserved or malformed, or the empty argument after a value-less flag
ArgsRejected ==
    \E i \in 1..Len(args) :
        /\ PrefixOrdinary(i)
        /\ \/ EmptyAfterFlag(i)
           \/ Len(args[i]) >= 2 /\ Ch(args[i], 1) = "-" /\ ~OrdinaryFlag(args[i])

ParsingOutcomes == {"BadFlagSyntax", "ErrHelp", "ErrVersion", "panic"}

C26_ParserTotal ==
    FlagsParsed =>
        /\ err.kind # "panic"
        /\ newFlagParser(args).err \in {NoErr, ErrHelp, ErrVersion}
           \/ newFlagParser(args).err.kind = "BadFlagSyntax"

\* no struct field of the record has a Decode method
RECURSIVE NoDecoderStruct(_)
NoDecoderStruct(decls) ==
    \A i \in 1..Len(decls) :
        decls[i].kind = "struct" => decls[i].decoder = "" /\ NoDecoderStruct(decls[i].fields)

\* the errors Process returns before the loop over the descriptors
EarlyErrors == {"BadFlagSyntax", "ErrHelp", "ErrVersion", "InvalidTarget"} \cup ExtractionErrors

\* C27: when Process, called without parsers on a record without struct fields
\* that have a Decode method, returns a bad-flag-syntax error, ErrHelp,
\* ErrVersion or an extraction error, no descriptor was processed and the
\* record is what it was when Process was called.
C27_EarlyFailureWritesNothing ==
    (/\ pc = "done" /\ parsers = <<>> /\ NoDecoderStruct(typ.decls)
     /\ err.kind \in EarlyErrors)
    => /\ rec = rec1
       /\ log = <<>>

\* the call failed on the extraction of a record whose fields declare defaults,
\* with an environment and arguments that address its fields
C27_Witness ==
    /\ pc = "done" /\ parsers = <<>> /\ NoDecoderStruct(typ.decls)
    /\ err.kind \in ExtractionErrors
    /\ \E p \in DOMAIN rec : DeclAt(typ.decls, p).default # ""
    /\ environ # <<>> /\ \E i \in 1..Len(args) : OrdinaryFlag(args[i]) /\ HasEq(args[i])

\* the call of processField on a slice or map destination, or on a pointer to
\* one, returned; SwitchKind is the kind the switch works on
SwitchKind == IF IsPtrKind(call.kind) THEN PointeeKind(call.kind) ELSE call.kind
SeqOrMapReturned ==
    /\ pc = "return" /\ call.fn = "processField"
    /\ IsMapKind(SwitchKind) \/ (IsSliceKind(SwitchKind) /\ SwitchKind # "[]byte")

\* part i of the raw value does not coerce: an element, a key or a value that
\* fails, or a map entry without ':'
PartFails(i) ==
    IF IsSliceKind(SwitchKind)
    THEN processField(call.parts[i].c, ElemKind(SwitchKind)).err # NoErr
    ELSE \/ ~call.parts[i].colon
         \/ processField(call.parts[i].k, KeyKind(SwitchKind)).err # NoErr
         \/ processField(call.parts[i].v, ValueKind(SwitchKind)).err # NoErr

\* C28 (as stated): when a part of the raw value does not coerce, processField
\* returns an error and the destination holds what it held before the call.
C28_AllOrNothing ==
    (SeqOrMapReturned /\ \E i \in 1..Len(call.parts) : PartFails(i)) =>
        /\ ret.err # NoErr
        /\ ret.v = DestValue(call.kind, call.dest)

\* C28 (amended): when a part of the raw value does not coerce, processField
\* returns an error and the slice or map of the destination is what it was
\* before the call, no element or entry of the raw value being stored; a
\* destination that was a nil pointer has been allocated all the same and
\* points to a nil slice or map.
C28_NothingButAllocation ==
    (SeqOrMapReturned /\ \E i \in 1..Len(call.parts) : PartFails(i)) =>
        /\ ret.err # NoErr
        /\ ret.v = IF IsPtrKind(call.kind) /\ call.dest = "zero"
                   THEN PtrTo(Zero(SwitchKind)) ELSE DestValue(call.kind, call.dest)

\* a slice that held elements, a raw value whose first piece coerces and whose
\* last does not: the slice still holds the elements it held
C28_Witness ==
    /\ SeqOrMapReturned /\ call.kind = "[]int16" /\ ret.v = <<1, 2>>
    /\ call.dest = "held" /\ Len(call.parts) = 3
    /\ ~PartFails(1) /\ PartFails(3)
    /\ ret.err # NoErr

\* the environment holds the variable of f with the empty value
EnvEmpty(f) == f.EnvVar \in DOMAIN envm /\ envm[f.EnvVar] = ""

\* the arguments hold the flag of f, which is no bool, without a value
FlagBare(f) == f.kind # "bool" /\ FlagKey(f) \in DOMAIN flagm /\ ~flagm[FlagKey(f)].HasValue

\* the mutators accept raw for f
Mutates(f, raw) == mutateLoop(mutators, 1, f, raw, "", <<>>).err = NoErr

\* C29: presence decides whether a source resolves a descriptor.  A variable
\* set to the empty string and a flag of a non-boolean field given without a
\* value are found with the value "", which goes through the mutators to the
\* coercer like any other value: when it is the value of the last source that
\* resolves the descriptor and it coerces, the field holds its coercion in
\* place of the default or of the value of the environment; when it does not
\* coerce the call ends with the coercion error.
C29_PresenceDecides ==
    [][pc = "fields" =>
        LET f == fields[k]
            defaultOk == ~DefaultFails(f, rec[f.path])
            envOk == ~EnvHit(f) \/ (Mutates(f, EnvRaw(f)) /\ ~RawFails(f, EnvRaw(f)))
            stored == IF RawFails(f, "") THEN pc' = "done" /\ err'.kind = Coerced_err(f, "").kind
                      ELSE rec'[f.path] = Coerced(f, "")
                           /\ err'.kind \in {"nil", "RequiredFieldMissing"}
        IN  /\ EnvEmpty(f) => EnvHit(f) /\ EnvRaw(f) = ""
            /\ FlagBare(f) => FlagHit(f) /\ FlagRaw(f) = ""
            /\ (EnvEmpty(f) /\ defaultOk) =>
                  \E j \in 1..Len(NewLog) :
                      /\ NewLog[j].ev = "resolve" /\ NewLog[j].src = "env"
                      /\ NewLog[j].in = ""
            /\ (EnvEmpty(f) /\ ~FlagHit(f) /\ defaultOk /\ Mutates(f, "")) => stored
            /\ (FlagBare(f) /\ defaultOk /\ envOk /\ Mutates(f, "")) =>
                  /\ stored
                  /\ \E j \in 1..Len(NewLog) :
                        /\ NewLog[j].ev = "resolve" /\ NewLog[j].src = "flag"
                        /\ NewLog[j].in = ""
    ]_vars

\* a string field with a default, named by the environment with a non-empty
\* value and by a flag without a value: it holds the empty string
C29_Witness ==
    \E i \in 1..Len(fields) :
        LET f == fields[i] IN
        /\ i < k /\ f.kind = "string" /\ f.Default # ""
        /\ EnvHit(f) /\ EnvRaw(f) # ""
        /\ FlagBare(f)
        /\ mutators = <<>>
        /\ rec[f.path] = ""

\* the calls of mutator m in the log entries seg for a value of the source src
MutatorCalls(seg, m, src) ==
    {j \in 1..Len(seg) : seg[j].ev = "mutator" /\ seg[j].idx = m /\ seg[j].src = src}

\* C30: a mutator is called only in the per-descriptor pass, with the key of
\* the descriptor at hand, for a value that the environment or the flag source
\* resolved, at most once per source; when the pass over the descriptor raises
\* no mutator or coercion error every supplied non-nil mutator is called
\* exactly once for each source that resolves the descriptor (twice when both
\* do).  No mutator is called for a default, while the parsers run, or for a
\* descriptor that no source resolves.
C30_MutatorsPerSource ==
    [][/\ \A j \in 1..Len(NewLog) :
             NewLog[j].ev = "mutator" =>
                 /\ pc = "fields"
                 /\ NewLog[j].src \in {"env", "flag"}
                 /\ NewLog[j].key = fields[k].Name
                 /\ NewLog[j].idx \in Live
       /\ pc = "fields" =>
             LET f == fields[k]
                 Hit(src) == IF src = "env" THEN EnvHit(f) ELSE FlagHit(f)
             IN \A m \in Live : \A src \in {"env", "flag"} :
                   /\ Cardinality(MutatorCalls(NewLog, m, src)) <= 1
                   /\ ~Hit(src) => MutatorCalls(NewLog, m, src) = {}
                   /\ (Hit(src) /\ err'.kind \in {"nil", "RequiredFieldMissing"}) =>
                          Cardinality(MutatorCalls(NewLog, m, src)) = 1
    ]_vars

\* a call with a parser and a mutator: a descriptor that both sources resolve
\* had the mutator called twice, one that takes its default had no call
C30_Witness ==
    /\ Succeeded /\ parsers # <<>> /\ Live # {}
    /\ \E i \in 1..Len(fields) :
          /\ EnvHit(fields[i]) /\ FlagHit(fields[i])
          /\ \A m \in Live :
                Cardinality({j \in 1..Len(log) : /\ log[j].ev = "mutator" /\ log[j].idx = m
                                                 /\ log[j].key = fields[i].Name}) = 2
    /\ \E i \in 1..Len(fields) :
          /\ ~EnvHit(fields[i]) /\ ~FlagHit(fields[i])
          /\ fields[i].Default # ""
          /\ rec[fields[i].path] = processField(fields[i].Default, fields[i].kind).v
          /\ \A j \in 1..Len(log) : log[j].ev = "mutator" => log[j].key # fields[i].Name

====
